---- MODULE Spec2Model ----
(***************************************************************************)
(* Model of the multi-agent research backend (backend/app):                *)
(*   services/run_store.py   RunStore   - runs, agents, durable event log   *)
(*   services/event_bus.py   EventBus   - per-run bounded queue fan-out     *)
(*   agents/base.py          BaseAgent  - step contract, retrying invoker   *)
(*   agents/lead_researcher.py, subagent.py, citation.py, evaluator.py      *)
(*   api/routes.py           create_run.orchestrate                         *)
(*                                                                         *)
(* Scheduling.  Everything runs on one asyncio event loop.  A task gives   *)
(* up control only where an awaited future is pending: the completion      *)
(* call, the search call, asyncio.sleep, a websocket send and queue.get on *)
(* an empty queue.  Both locks (RunStore._lock, EventBus._lock) guard      *)
(* bodies without any await, so at every task switch both are free and     *)
(* `async with lock` never suspends.  A store or bus call therefore runs   *)
(* to completion once started; each is one step of the model, and the      *)
(* operators below are the bodies of the critical sections.                *)
(*                                                                         *)
(* Values.  Python str is a TLA+ string, None is the string None, a list   *)
(* is a sequence, a dict with fixed keys a record, a dict keyed by ids a   *)
(* function.  uuid4().hex is Uuid(n) for a counter n (uuids are assumed    *)
(* unique), datetime.utcnow() reads a logical clock that ticks per read.   *)
(***************************************************************************)
EXTENDS Integers, Sequences, FiniteSets, TLC

VARIABLES
  runs,        \* RunStore._runs: run id -> ResearchRun
  events,      \* RunStore._events: run id -> list of RunEvent
  subscribers, \* EventBus._subscribers: run id -> set of queues (by identity)
  queues,      \* the asyncio.Queue objects ever created: queue id -> [maxsize, items]
  clock,       \* number of timestamps read so far
  uuidCount,   \* number of uuid4() calls so far
  history,     \* the store calls completed so far, in completion order
  snaps,       \* the lists get_events has returned so far, per run id
  handles,     \* per queue, what its holder knows: the run subscribed to, the length
               \* of that run's log at the subscription, the events dequeued so far
  inv,         \* the frame of the plan_with_llm call in progress
  timeoutsLeft,\* how many more completion calls the environment lets time out
  orch,        \* the frame of the background task orchestrate
  lead,        \* the frame of LeadResearcherAgent.run
  sub,         \* the frame of ResearchSubagent.run
  cit,         \* the frame of CitationAgent.run
  frames       \* per task, the frame of its store or bus call in progress, with
               \* the locks (RunStore._lock, EventBus._lock) the call holds

storeVars == <<runs, events, clock, uuidCount>>
busVars   == <<subscribers, queues>>
obsVars   == <<history, snaps, handles, frames>>
invVars   == <<inv, timeoutsLeft>>
agentVars == <<orch, lead, sub, cit>>
stepVars  == <<inv, timeoutsLeft, orch, lead, sub, cit, frames>>
vars      == <<runs, events, subscribers, queues, clock, uuidCount, history, snaps, handles,
               inv, timeoutsLeft, orch, lead, sub, cit, frames>>

----------------------------------------------------------------------------
(* Bounds of the model *)

\* store calls issued in one behaviour of SpecStore
MaxCalls == 4
\* runs created in one behaviour
MaxRuns == 1
\* events appended in one behaviour of SpecLog or SpecBus
MaxEvents == 3
\* add_event calls made in one behaviour of SpecLocks
MaxLockEvents == 2
\* store calls made in one behaviour of SpecSaves
MaxSaveCalls == 3
\* get_events calls per run id in one behaviour of SpecLog or SpecBus
MaxSnaps == 2
\* the capacity of a subscription queue in SpecBus, standing for the
\* maxsize=200 of event_bus.py line 20: the bus treats every positive
\* capacity alike, and a small one lets two queues fill within MaxEvents.
\* SpecBusFull keeps the capacity of the code.
SmallQueueSize == 2
\* the largest retry budget plan_with_llm is called with in SpecInvoker
MaxRetryBudget == 10
\* the bullet lines of the longest plan the planning call returns in SpecPipeline
MaxBullets == 4
\* the completion calls that time out in one behaviour of SpecPipeline
MaxTimeouts == 1

----------------------------------------------------------------------------
(* Constants of the program *)

\* event_bus.py, subscribe: asyncio.Queue(maxsize=200)
QueueMaxSize == 200
----------------------------------------------------------------------------
(* Values *)

None == "None"

Uuid(n) == "u" \o ToString(n)

\* an id no uuid4() call has returned
UnknownId == "unknown"

\* the concurrent tasks that call the store
Tasks == {"t1", "t2"}

\* the identities of the queues a behaviour of SpecBus creates, in creation order
QueueIds == {1, 2}

\* models/enums.py
AgentRole == [LEAD_RESEARCHER |-> "lead_researcher", SUBAGENT |-> "subagent", CITATION |-> "citation"]

AgentStatus == [IDLE |-> "idle", RUNNING |-> "running", COMPLETED |-> "completed", FAILED |-> "failed"]

RunStatus == [CREATED |-> "created", RUNNING |-> "running", COMPLETED |-> "completed", FAILED |-> "failed"]

EventType == [RUN_STARTED |-> "run_started", RUN_COMPLETED |-> "run_completed",
              RUN_FAILED |-> "run_failed", AGENT_SPAWNED |-> "agent_spawned",
              AGENT_COMPLETED |-> "agent_completed", AGENT_FAILED |-> "agent_failed",
              TOOL_CALL |-> "tool_call", FINDING_RECORDED |-> "finding_recorded",
              PLAN_UPDATED |-> "plan_updated", CITATIONS_GENERATED |-> "citations_generated"]

\* the members an enum class defines; Enum.NAME on any other name raises AttributeError
HasMember(enum, name) == name \in DOMAIN enum

Range(f) == {f[x] : x \in DOMAIN f}

\* d[k] = v, for a new or an existing key
Put(d, k, v) == [x \in DOMAIN d \cup {k} |-> IF x = k THEN v ELSE d[x]]

\* dict.pop(k, None)
Pop(d, k) == [x \in DOMAIN d \ {k} |-> d[x]]

IsPrefix(s, t) == Len(s) <= Len(t) /\ SubSeq(t, 1, Len(s)) = s

Last(s) == s[Len(s)]

----------------------------------------------------------------------------
(* models/run.py, models/events.py *)

AgentState(id, name, role, brief) ==
  [id |-> id, name |-> name, role |-> role, status |-> AgentStatus.IDLE, brief |-> brief,
   findings |-> <<>>, started_at |-> None, completed_at |-> None, error |-> None]

\* created_at and updated_at both default to utcnow(): two reads of the clock
ResearchRun(id, query, goal, now) ==
  [id |-> id, query |-> query, goal |-> goal, status |-> RunStatus.CREATED,
   created_at |-> now + 1, updated_at |-> now + 2, agents |-> <<>>, plan |-> None,
   final_report |-> None, citations |-> <<>>, evaluation |-> None]

EvaluationResult(rubric_scores, overall_score, passed, feedback, raw_judgement) ==
  [rubric_scores |-> rubric_scores, overall_score |-> overall_score, passed |-> passed,
   feedback |-> feedback, raw_judgement |-> raw_judgement]

RunEvent(run_id, type, timestamp, payload, agent_id) ==
  [run_id |-> run_id, type |-> type, timestamp |-> timestamp, payload |-> payload,
   agent_id |-> agent_id]

\* ResearchRun.update_timestamp, with `now` the clock before the read
update_timestamp(run, now) == [run EXCEPT !.updated_at = now + 1]

----------------------------------------------------------------------------
(* services/run_store.py: the bodies of the critical sections.  Each takes  *)
(* the dict it works on and returns it as left by the call; `now` is the    *)
(* clock before the call.  self._runs[run_id] and run.agents[agent_id]      *)
(* raise KeyError for a missing key, before anything is written.            *)

KnownRun(rs, run_id) == run_id \in DOMAIN rs

KnownAgent(rs, run_id, agent_id) == KnownRun(rs, run_id) /\ agent_id \in DOMAIN rs[run_id].agents

create_run(rs, run_id, query, goal, now) == Put(rs, run_id, ResearchRun(run_id, query, goal, now))

add_agent(rs, run_id, agent_id, name, role, brief, now) ==
  [rs EXCEPT ![run_id] = update_timestamp(
      [@ EXCEPT !.agents = Put(@, agent_id, AgentState(agent_id, name, role, brief))], now)]

update_agent_status(rs, run_id, agent_id, status, error, now) ==
  [rs EXCEPT ![run_id] = update_timestamp(
      [@ EXCEPT !.agents[agent_id].status = status, !.agents[agent_id].error = error], now)]

\* Faulty variant of append_finding: the finding replaces the list (a lost update)
append_finding_overwrites(rs, run_id, agent_id, finding, now) ==
  [rs EXCEPT ![run_id] = update_timestamp(
      [@ EXCEPT !.agents[agent_id].findings = <<finding>>,
                !.agents[agent_id].status = AgentStatus.RUNNING], now)]

\* Faulty variant of append_finding: the error of the agent is cleared
append_finding_clears_error(rs, run_id, agent_id, finding, now) ==
  [rs EXCEPT ![run_id] = update_timestamp(
      [@ EXCEPT !.agents[agent_id].findings = Append(@, finding),
                !.agents[agent_id].status = AgentStatus.RUNNING,
                !.agents[agent_id].error = None], now)]

append_finding(rs, run_id, agent_id, finding, now) ==
  [rs EXCEPT ![run_id] = update_timestamp(
      [@ EXCEPT !.agents[agent_id].findings = Append(@, finding),
                !.agents[agent_id].status = AgentStatus.RUNNING], now)]

update_run_status(rs, run_id, status, now) ==
  [rs EXCEPT ![run_id] = update_timestamp([@ EXCEPT !.status = status], now)]

\* Faulty variant of save_plan: the update timestamp is left as it was
save_plan_stale_timestamp(rs, run_id, plan, now) ==
  [rs EXCEPT ![run_id] = [@ EXCEPT !.plan = plan]]

save_plan(rs, run_id, plan, now) ==
  [rs EXCEPT ![run_id] = update_timestamp([@ EXCEPT !.plan = plan], now)]

\* Faulty variant of save_final_report: the report is stored and the citations
\* are left to a later call
save_final_report_only(rs, run_id, report, citations, now) ==
  [rs EXCEPT ![run_id] = update_timestamp([@ EXCEPT !.final_report = report], now)]

\* `citations or []` is the list passed: every caller passes a list
save_final_report(rs, run_id, report, citations, now) ==
  [rs EXCEPT ![run_id] = update_timestamp(
      [@ EXCEPT !.final_report = report, !.citations = citations], now)]

save_evaluation(rs, run_id, evaluation, now) ==
  [rs EXCEPT ![run_id] = update_timestamp([@ EXCEPT !.evaluation = evaluation], now)]

\* Faulty variant of add_event_log: the event is inserted at the head of the log
add_event_log_at_head(evs, event) ==
  Put(evs, event.run_id,
      <<event>> \o (IF event.run_id \in DOMAIN evs THEN evs[event.run_id] ELSE <<>>))

\* Faulty variant of add_event_log: an event of a run id without log is dropped
add_event_log_known_only(evs, event) ==
  IF event.run_id \in DOMAIN evs
  THEN [evs EXCEPT ![event.run_id] = Append(@, event)]
  ELSE evs

\* the log of event.run_id, created empty when the id has none, with the event appended
add_event_log(evs, event) ==
  Put(evs, event.run_id,
      Append(IF event.run_id \in DOMAIN evs THEN evs[event.run_id] ELSE <<>>, event))

\* list(self._events.get(run_id, []))
get_events(evs, run_id) == IF run_id \in DOMAIN evs THEN evs[run_id] ELSE <<>>

get_run(rs, run_id) == IF run_id \in DOMAIN rs THEN rs[run_id] ELSE None

----------------------------------------------------------------------------
(* asyncio.Queue(maxsize): put_nowait raises QueueFull when qsize() >=      *)
(* maxsize, get_nowait removes and returns the head.                        *)

Queue(maxsize) == [maxsize |-> maxsize, items |-> <<>>]

\* Faulty variant of full: a queue that never reports full (maxsize <= 0)
full_never(q) == FALSE

full(q) == Len(q.items) >= q.maxsize

\* Faulty variant of put_nowait: the item goes to the head (a LIFO queue)
put_nowait_at_head(q, item) == [q EXCEPT !.items = <<item>> \o @]

put_nowait(q, item) == [q EXCEPT !.items = Append(@, item)]

\* the queue as get_nowait leaves it (the caller discards the item returned)
get_nowait(q) == [q EXCEPT !.items = Tail(@)]

----------------------------------------------------------------------------
(* services/event_bus.py *)

\* self._subscribers.get(run_id, set()): reading does not create the entry
subscribers_of(subs, run_id) == IF run_id \in DOMAIN subs THEN subs[run_id] ELSE {}

\* self._subscribers[run_id].add(queue): the defaultdict creates the entry
subscribe(subs, run_id, qid) == Put(subs, run_id, subscribers_of(subs, run_id) \cup {qid})

\* Faulty variant of unsubscribe: the queue is discarded and the entry of the
\* run is kept, empty or not
unsubscribe_keeps_entry(subs, run_id, qid) ==
  IF subscribers_of(subs, run_id) = {} THEN subs
  ELSE [subs EXCEPT ![run_id] = @ \ {qid}]

\* `if not queues: return` leaves a missing entry missing; the entry is
\* popped when the discard empties it
unsubscribe(subs, run_id, qid) ==
  IF subscribers_of(subs, run_id) = {} THEN subs
  ELSE IF subs[run_id] \ {qid} = {} THEN Pop(subs, run_id)
  ELSE [subs EXCEPT ![run_id] = @ \ {qid}]

\* Faulty variant of deliver: on QueueFull the new event is given up
deliver_drops_new(q, event) == IF full(q) THEN q ELSE put_nowait(q, event)

\* the body of publish's loop for one queue: put_nowait, and on QueueFull
\* get_nowait then put_nowait
deliver(q, event) == IF full(q) THEN put_nowait(get_nowait(q), event) ELSE put_nowait(q, event)

\* Faulty variant of publish: every queue gets the event, whatever run it is
\* registered for
publish_to_all(subs, qs, event) == [qid \in DOMAIN qs |-> deliver(qs[qid], event)]

\* publish: the queues registered for event.run_id get the event, the others are untouched
publish(subs, qs, event) ==
  [qid \in DOMAIN qs |->
     IF qid \in subscribers_of(subs, event.run_id) THEN deliver(qs[qid], event) ELSE qs[qid]]

----------------------------------------------------------------------------
(* The state after `run_store = RunStore()` and `event_bus = EventBus()`;    *)
(* no agent step has been started.                                          *)

Idle == [pc |-> "idle"]

NoSteps ==
  /\ inv = Idle
  /\ timeoutsLeft = 0
  /\ orch = Idle
  /\ lead = Idle
  /\ sub = Idle
  /\ cit = Idle

Init ==
  /\ runs = <<>>
  /\ events = <<>>
  /\ subscribers = <<>>
  /\ queues = <<>>
  /\ clock = 0
  /\ uuidCount = 0
  /\ history = <<>>
  /\ snaps = <<>>
  /\ frames = <<>>
  /\ handles = <<>>
  /\ NoSteps

----------------------------------------------------------------------------
(* SpecStore: tasks calling the agent operations of the Run Store           *)
(* concurrently.  A call is one step (see Scheduling above); `history`      *)
(* records each completed call with what it returned or raised.             *)

Call(t, op, args, ret) == [task |-> t, op |-> op, args |-> args, ret |-> ret]

KeyError == "KeyError"

\* the run ids and agent ids a caller may pass: the known ones and one that is not
RunIdArgs == DOMAIN runs \cup {UnknownId}

AgentIdArgs(run_id) == (IF KnownRun(runs, run_id) THEN DOMAIN runs[run_id].agents ELSE {}) \cup {UnknownId}

\* (status, error) pairs passed to update_agent_status; one pair is enough
\* for a call that raises KeyError
StatusArgs(run_id, agent_id) ==
  IF KnownAgent(runs, run_id, agent_id)
  THEN {<<AgentStatus.IDLE, None>>, <<AgentStatus.RUNNING, None>>,
        <<AgentStatus.COMPLETED, None>>, <<AgentStatus.FAILED, "boom">>}
  ELSE {<<AgentStatus.RUNNING, None>>}

StoreCreateRun(t) ==
  /\ Len(history) < MaxCalls
  /\ Cardinality(DOMAIN runs) < MaxRuns
  /\ LET run_id == Uuid(uuidCount + 1) IN
       /\ runs' = create_run(runs, run_id, "q", None, clock)
       /\ events' = Put(events, run_id, <<>>)
       /\ history' = Append(history, Call(t, "create_run", [query |-> "q"], run_id))
  /\ uuidCount' = uuidCount + 1
  /\ clock' = clock + 2
  /\ UNCHANGED <<busVars, snaps, handles, stepVars>>

StoreAddAgent(t, run_id, role) ==
  /\ Len(history) < MaxCalls
  /\ LET agent_id == Uuid(uuidCount + 1)
         args == [run_id |-> run_id, name |-> "agent", role |-> role, brief |-> None]
     IN IF KnownRun(runs, run_id)
        THEN /\ runs' = add_agent(runs, run_id, agent_id, "agent", role, None, clock)
             /\ uuidCount' = uuidCount + 1
             /\ clock' = clock + 1
             /\ history' = Append(history, Call(t, "add_agent", args, agent_id))
        ELSE /\ history' = Append(history, Call(t, "add_agent", args, KeyError))
             /\ UNCHANGED <<runs, uuidCount, clock>>
  /\ UNCHANGED <<events, busVars, snaps, handles, stepVars>>

StoreUpdateAgentStatus(t, run_id, agent_id, status, error) ==
  /\ Len(history) < MaxCalls
  /\ LET args == [run_id |-> run_id, agent_id |-> agent_id, status |-> status, error |-> error]
     IN IF KnownAgent(runs, run_id, agent_id)
        THEN /\ runs' = update_agent_status(runs, run_id, agent_id, status, error, clock)
             /\ clock' = clock + 1
             /\ history' = Append(history, Call(t, "update_agent_status", args, None))
        ELSE /\ history' = Append(history, Call(t, "update_agent_status", args, KeyError))
             /\ UNCHANGED <<runs, clock>>
  /\ UNCHANGED <<events, uuidCount, busVars, snaps, handles, stepVars>>

\* the text of the n-th call of a behaviour, so that calls can be told apart
FindingText(n) == "f" \o ToString(n)

StoreAppendFinding(t, run_id, agent_id) ==
  /\ Len(history) < MaxCalls
  /\ LET finding == FindingText(Len(history) + 1)
         args == [run_id |-> run_id, agent_id |-> agent_id, finding |-> finding]
     IN IF KnownAgent(runs, run_id, agent_id)
        THEN /\ runs' = append_finding(runs, run_id, agent_id, finding, clock)
             /\ clock' = clock + 1
             /\ history' = Append(history, Call(t, "append_finding", args, None))
        ELSE /\ history' = Append(history, Call(t, "append_finding", args, KeyError))
             /\ UNCHANGED <<runs, clock>>
  /\ UNCHANGED <<events, uuidCount, busVars, snaps, handles, stepVars>>

NextStore ==
  \E t \in Tasks :
    \/ StoreCreateRun(t)
    \/ \E run_id \in RunIdArgs : StoreAddAgent(t, run_id, AgentRole.SUBAGENT)
    \/ \E run_id \in RunIdArgs : \E agent_id \in AgentIdArgs(run_id) :
         \E se \in StatusArgs(run_id, agent_id) :
           StoreUpdateAgentStatus(t, run_id, agent_id, se[1], se[2])
    \/ \E run_id \in RunIdArgs : \E agent_id \in AgentIdArgs(run_id) :
         StoreAppendFinding(t, run_id, agent_id)

SpecStore == Init /\ [][NextStore]_vars

----------------------------------------------------------------------------
(* SpecLog and SpecBus: tasks appending events to the durable log (add_event, which  *)
(* also publishes), readers of the log (get_events), and subscribers of the *)
(* bus (subscribe, queue.get, unsubscribe).                                 *)

RECURSIVE SumOver(_, _)
SumOver(f, S) == IF S = {} THEN 0 ELSE LET x == CHOOSE y \in S : TRUE IN f[x] + SumOver(f, S \ {x})

\* the number of events in all the logs
EventCount == SumOver([r \in DOMAIN events |-> Len(events[r])], DOMAIN events)

\* RunStore.add_event: the event is appended under the store's lock, then published
EvAddEvent(t, run_id, type, limit) ==
  /\ EventCount < limit
  /\ LET event == RunEvent(run_id, type, clock + 1, [task |-> t], None) IN
       /\ events' = add_event_log(events, event)
       /\ queues' = publish(subscribers, queues, event)
  /\ clock' = clock + 1
  /\ UNCHANGED <<runs, uuidCount, subscribers, history, snaps, handles, stepVars>>

\* RunStore.get_events: the caller keeps the copy returned
EvGetEvents(run_id) ==
  /\ Len(get_events(snaps, run_id)) < MaxSnaps
  /\ snaps' = Put(snaps, run_id, Append(get_events(snaps, run_id), get_events(events, run_id)))
  /\ UNCHANGED <<storeVars, busVars, history, handles, stepVars>>

\* EventBus.subscribe with a queue of the given capacity
BusSubscribe(run_id, maxsize) ==
  /\ DOMAIN queues # QueueIds
  /\ LET qid == Cardinality(DOMAIN queues) + 1 IN
       /\ queues' = Put(queues, qid, Queue(maxsize))
       /\ subscribers' = subscribe(subscribers, run_id, qid)
       /\ handles' = Put(handles, qid, [run_id |-> run_id,
                                        since |-> Len(get_events(events, run_id)),
                                        got |-> <<>>])
  /\ UNCHANGED <<storeVars, history, snaps, stepVars>>

\* EventBus.unsubscribe, for any run id and any queue
BusUnsubscribe(run_id, qid) ==
  /\ subscribers' = unsubscribe(subscribers, run_id, qid)
  /\ UNCHANGED <<storeVars, queues, obsVars, stepVars>>

\* `event = await queue.get()` returning: the holder of the queue takes its
\* head.  A holder dequeues at most MaxEvents events in one behaviour.
BusConsume(qid) ==
  /\ queues[qid].items # <<>>
  /\ Len(handles[qid].got) < MaxEvents
  /\ handles' = [handles EXCEPT ![qid].got = Append(@, Head(queues[qid].items))]
  /\ queues' = [queues EXCEPT ![qid] = get_nowait(@)]
  /\ UNCHANGED <<storeVars, subscribers, history, snaps, stepVars>>

\* The store after one create_run("q"), the bus as constructed
InitOneRun ==
  /\ runs = create_run(<<>>, Uuid(1), "q", None, 0)
  /\ events = Put(<<>>, Uuid(1), <<>>)
  /\ subscribers = <<>>
  /\ queues = <<>>
  /\ clock = 2
  /\ uuidCount = 1
  /\ history = <<>>
  /\ snaps = <<>>
  /\ frames = <<>>
  /\ handles = <<>>
  /\ NoSteps

\* SpecLog: writers and readers of the durable log
NextLog ==
  \/ \E t \in Tasks, run_id \in RunIdArgs : EvAddEvent(t, run_id, EventType.TOOL_CALL, MaxEvents)
  \/ \E run_id \in RunIdArgs : EvGetEvents(run_id)

SpecLog == InitOneRun /\ [][NextLog]_vars

\* SpecBus: writers of the log and subscribers of the bus
NextBus ==
  \/ \E t \in Tasks, run_id \in RunIdArgs : EvAddEvent(t, run_id, EventType.TOOL_CALL, MaxEvents)
  \/ \E run_id \in RunIdArgs : BusSubscribe(run_id, SmallQueueSize)
  \/ \E run_id \in RunIdArgs, qid \in DOMAIN queues : BusUnsubscribe(run_id, qid)
  \/ \E qid \in DOMAIN queues : BusConsume(qid)

SpecBus == InitOneRun /\ [][NextBus]_vars

\* The state reached from InitOneRun by one subscribe(Uuid(1)) followed by
\* QueueMaxSize - 1 add_event calls of task t1 while the subscriber does not
\* dequeue: its queue is one short of full.
NearFullLog == [i \in 1..(QueueMaxSize - 1) |->
                  RunEvent(Uuid(1), EventType.TOOL_CALL, 2 + i, [task |-> "t1"], None)]

InitNearFull ==
  /\ runs = create_run(<<>>, Uuid(1), "q", None, 0)
  /\ events = Put(<<>>, Uuid(1), NearFullLog)
  /\ subscribers = subscribe(<<>>, Uuid(1), 1)
  /\ queues = Put(<<>>, 1, [maxsize |-> QueueMaxSize, items |-> NearFullLog])
  /\ clock = 2 + QueueMaxSize - 1
  /\ uuidCount = 1
  /\ history = <<>>
  /\ snaps = <<>>
  /\ frames = <<>>
  /\ handles = Put(<<>>, 1, [run_id |-> Uuid(1), since |-> 0, got |-> <<>>])
  /\ NoSteps

\* SpecBusFull: SpecBus with queues of the capacity of the code, started with
\* a slow subscriber; task t1 goes on writing
NextBusFull ==
  \/ \E run_id \in RunIdArgs :
       EvAddEvent("t1", run_id, EventType.TOOL_CALL, QueueMaxSize - 1 + MaxEvents)
  \/ \E run_id \in RunIdArgs : BusSubscribe(run_id, QueueMaxSize)
  \/ \E run_id \in RunIdArgs, qid \in DOMAIN queues : BusUnsubscribe(run_id, qid)
  \/ \E qid \in DOMAIN queues : BusConsume(qid)

SpecBusFull == InitNearFull /\ [][NextBusFull]_vars

----------------------------------------------------------------------------
(* str methods used by the agents *)

Whitespace == {" ", "\t", "\n", "\r", "\f"}

CharAt(s, i) == SubSeq(s, i, i)

\* s[i:], i zero-based
From(s, i) == SubSeq(s, i + 1, Len(s))

\* s[:n]
Upto(s, n) == IF Len(s) <= n THEN s ELSE SubSeq(s, 1, n)

RECURSIVE lstrip(_, _)
lstrip(s, chars) ==
  IF Len(s) > 0 /\ CharAt(s, 1) \in chars THEN lstrip(From(s, 1), chars) ELSE s

RECURSIVE rstrip(_, _)
rstrip(s, chars) ==
  IF Len(s) > 0 /\ CharAt(s, Len(s)) \in chars THEN rstrip(SubSeq(s, 1, Len(s) - 1), chars) ELSE s

\* s.strip(chars); s.strip() is strip(s, Whitespace)
strip(s, chars) == rstrip(lstrip(s, chars), chars)

\* s.startswith(prefix)
startswith(s, prefix) == Len(s) >= Len(prefix) /\ SubSeq(s, 1, Len(prefix)) = prefix

\* bool(s) of a str or None
Truthy(s) == s # None /\ s # ""

\* Faulty variant of Pow2: a delay that grows by one
Pow2Linear(n) == n + 1

\* 2**n
RECURSIVE Pow2(_)
Pow2(n) == IF n = 0 THEN 1 ELSE 2 * Pow2(n - 1)

----------------------------------------------------------------------------
(* agents/base.py: BaseAgent *)

\* retries: int = 9
DefaultRetries == 9

\* the previews of plan_with_llm keep 497 characters of a text longer than 500
PreviewLimit == 500

PreviewKeep == 497

\* Settings.openai_model, when the environment does not set OPENAI_MODEL
ModelName == "gpt-4o-mini"

prompt_preview(prompt) ==
  LET p == strip(prompt, Whitespace)
  IN  IF Len(p) > PreviewLimit THEN Upto(p, PreviewKeep) \o "..." ELSE p

system_prompt_preview(system_prompt) ==
  IF system_prompt = None THEN None ELSE prompt_preview(system_prompt)

\* What the completion call (LLMClient.complete) can raise.  str() of an
\* HTTPException is "<status>: <detail>" or the empty string, depending on
\* the installed Starlette; str() of a KeyError is the repr of the key.
HTTPException(status_code, detail, text) ==
  [type |-> "HTTPException", status_code |-> status_code, detail |-> detail, text |-> text]

GatewayTimeouts == {HTTPException(504, "LLM request failed", text) :
                       text \in {"504: LLM request failed", ""}}

UpstreamErrors == {HTTPException(502, "LLM upstream error", text) :
                      text \in {"502: LLM upstream error", ""}}
                  \cup {[type |-> "KeyError", text |-> "'choices'"]}

IsGatewayTimeout(exc) == exc.type = "HTTPException" /\ exc.status_code = 504

\* variants of the dispatch below: one that retries any HTTPException, one
\* that also retries the timeout of the last attempt
retry_any_http_error(exc, attempt, retries) == exc.type = "HTTPException" /\ attempt < retries

retry_past_budget(exc, attempt, retries) == IsGatewayTimeout(exc) /\ attempt <= retries

\* the dispatch of `except HTTPException` (lines 92-97): retry or re-raise
retry_after_timeout(exc, attempt, retries) == IsGatewayTimeout(exc) /\ attempt < retries

\* what a completion call ended with
Returned(text) == [kind |-> "return", value |-> text]

Raised(exc) == [kind |-> "raise", value |-> exc]

\* the event emit_event builds; `now` is the clock before the call
emitted(run_id, agent_id, type, payload, now) == RunEvent(run_id, type, now + 1, payload, agent_id)

\* add_event(event): append to the log, then publish; one timestamp was read
AddEvent(event) ==
  /\ events' = add_event_log(events, event)
  /\ queues' = publish(subscribers, queues, event)

\* the frame of plan_with_llm on entry to its loop (lines 67-77).  `outcomes`
\* and `sleeps` are not program state: they record what each completion call
\* of the invocation made so far ended with, and the delays slept so far.
plan_with_llm(caller, run_id, agent_id, prompt, system_prompt, retries) ==
  [pc |-> "attempt", caller |-> caller, run_id |-> run_id, agent_id |-> agent_id,
   prompt |-> prompt, system_prompt |-> system_prompt, retries |-> retries,
   attempt |-> 0, outcomes |-> <<>>, sleeps |-> <<>>]

\* Faulty variant of tool_call_payload: the first attempt is flagged a retry
tool_call_payload_retry_always(f) ==
  [tool |-> "llm", model |-> ModelName, attempt |-> f.attempt + 1,
   max_attempts |-> f.retries + 1, retry |-> f.attempt >= 0,
   prompt |-> prompt_preview(f.prompt),
   system_prompt |-> system_prompt_preview(f.system_prompt)]

\* lines 80-88: the payload of the tool-call event of the attempt
tool_call_payload(f) ==
  [tool |-> "llm", model |-> ModelName, attempt |-> f.attempt + 1,
   max_attempts |-> f.retries + 1, retry |-> f.attempt > 0,
   prompt |-> prompt_preview(f.prompt),
   system_prompt |-> system_prompt_preview(f.system_prompt)]

\* lines 78-91: the tool-call event, then the completion call is issued
InvAttempt ==
  /\ inv.pc = "attempt"
  /\ AddEvent(emitted(inv.run_id, inv.agent_id, EventType.TOOL_CALL, tool_call_payload(inv), clock))
  /\ clock' = clock + 1
  /\ inv' = [inv EXCEPT !.pc = "waiting"]
  /\ UNCHANGED <<runs, uuidCount, subscribers, obsVars, timeoutsLeft, agentVars>>

\* line 91: the completion call returns text, which plan_with_llm returns
InvReturn(text) ==
  /\ inv.pc = "waiting"
  /\ inv' = [pc |-> "returned", caller |-> inv.caller, result |-> text,
             retries |-> inv.retries, outcomes |-> Append(inv.outcomes, Returned(text)),
             sleeps |-> inv.sleeps]
  /\ UNCHANGED <<storeVars, busVars, obsVars, timeoutsLeft, agentVars>>

\* lines 92-97: the completion call raises
InvRaise(exc) ==
  /\ inv.pc = "waiting"
  /\ IsGatewayTimeout(exc) => timeoutsLeft > 0
  /\ timeoutsLeft' = IF IsGatewayTimeout(exc) THEN timeoutsLeft - 1 ELSE timeoutsLeft
  /\ inv' = IF retry_after_timeout(exc, inv.attempt, inv.retries)
            THEN [inv EXCEPT !.pc = "sleeping",
                             !.outcomes = Append(inv.outcomes, Raised(exc))]
            ELSE [pc |-> "raised", caller |-> inv.caller, exc |-> exc,
                  retries |-> inv.retries,
                  outcomes |-> Append(inv.outcomes, Raised(exc)),
                  sleeps |-> inv.sleeps]
  /\ UNCHANGED <<storeVars, busVars, obsVars, agentVars>>

\* lines 94-96 and 77: asyncio.sleep(2**attempt) is over and the loop
\* continues with the next value of range(retries + 1); were the range
\* exhausted, the function would end without a return statement
InvWake ==
  /\ inv.pc = "sleeping"
  /\ inv' = IF inv.attempt + 1 < inv.retries + 1
            THEN [inv EXCEPT !.pc = "attempt", !.attempt = inv.attempt + 1,
                             !.sleeps = Append(inv.sleeps, Pow2(inv.attempt))]
            ELSE [pc |-> "returned", caller |-> inv.caller, result |-> None,
                  retries |-> inv.retries, outcomes |-> inv.outcomes,
                  sleeps |-> Append(inv.sleeps, Pow2(inv.attempt))]
  /\ UNCHANGED <<storeVars, busVars, obsVars, timeoutsLeft, agentVars>>

----------------------------------------------------------------------------
(* SpecInvoker: one call of plan_with_llm by a step of an existing run,     *)
(* with any retry budget up to MaxRetryBudget, against a completion call    *)
(* that can return or raise at every attempt.                               *)

CompletionTexts == {"text", ""}

InvokerPrompts == {" prompt\n"}

InvCall(retries) ==
  /\ inv.pc = "idle"
  /\ \E prompt \in InvokerPrompts, system_prompt \in {None, "system"} :
       inv' = plan_with_llm("test", Uuid(1), None, prompt, system_prompt, retries)
  /\ UNCHANGED <<storeVars, busVars, obsVars, timeoutsLeft, agentVars>>

InitInvoker ==
  /\ runs = create_run(<<>>, Uuid(1), "q", None, 0)
  /\ events = Put(<<>>, Uuid(1), <<>>)
  /\ subscribers = <<>>
  /\ queues = <<>>
  /\ clock = 2
  /\ uuidCount = 1
  /\ history = <<>>
  /\ snaps = <<>>
  /\ frames = <<>>
  /\ handles = <<>>
  /\ inv = Idle
  /\ timeoutsLeft = MaxRetryBudget + 1
  /\ orch = Idle
  /\ lead = Idle
  /\ sub = Idle
  /\ cit = Idle

NextInvoker ==
  \/ \E retries \in 0..MaxRetryBudget : InvCall(retries)
  \/ InvAttempt
  \/ \E text \in CompletionTexts : InvReturn(text)
  \/ \E exc \in GatewayTimeouts \cup UpstreamErrors : InvRaise(exc)
  \/ InvWake

SpecInvoker == InitInvoker /\ [][NextInvoker]_vars

----------------------------------------------------------------------------
(* str, list and dict operations used by the agents' run methods *)

\* s.splitlines(), for the line boundaries \n, \r\n and \r; lines of s from
\* position i on, the line being read starting at position cur
RECURSIVE splitlines_from(_, _, _)
splitlines_from(s, i, cur) ==
  IF i > Len(s)
  THEN IF cur <= Len(s) THEN <<SubSeq(s, cur, Len(s))>> ELSE <<>>
  ELSE IF CharAt(s, i) = "\n"
  THEN <<SubSeq(s, cur, i - 1)>> \o splitlines_from(s, i + 1, i + 1)
  ELSE IF CharAt(s, i) = "\r"
  THEN IF i < Len(s) /\ CharAt(s, i + 1) = "\n"
       THEN <<SubSeq(s, cur, i - 1)>> \o splitlines_from(s, i + 2, i + 2)
       ELSE <<SubSeq(s, cur, i - 1)>> \o splitlines_from(s, i + 1, i + 1)
  ELSE splitlines_from(s, i + 1, cur)

splitlines(s) == splitlines_from(s, 1, 1)

\* sep.join(parts)
RECURSIVE join(_, _)
join(sep, parts) ==
  IF Len(parts) = 0 THEN ""
  ELSE IF Len(parts) = 1 THEN parts[1]
  ELSE parts[1] \o sep \o join(sep, Tail(parts))

\* part in s
contains(s, part) == \E i \in 1..(Len(s) - Len(part) + 1) : SubSeq(s, i, i + Len(part) - 1) = part

\* the positions of the character c in s
positions(s, c) == {i \in 1..Len(s) : CharAt(s, i) = c}

Min(S) == CHOOSE x \in S : \A y \in S : x <= y

Max(S) == CHOOSE x \in S : \A y \in S : x >= y

\* d.get(key, default)
get(d, key, default) == IF key \in DOMAIN d THEN d[key] ELSE default

\* the concatenation of a list of lists
RECURSIVE Flatten(_)
Flatten(xss) == IF Len(xss) = 0 THEN <<>> ELSE Head(xss) \o Flatten(Tail(xss))

----------------------------------------------------------------------------
(* agents/lead_researcher.py: the pure parts of LeadResearcherAgent.run *)

\* the bullet marker of line 43
BulletMarker == "- "

\* the fan-out width of line 47: tasks[:3]
MaxSubagents == 3

plan_system_prompt ==
  "You orchestrate multiple research subagents. Produce a structured plan "
  \o "with bullet points describing distinct investigative tracks and suggest up to three subagent tasks."

summary_system_prompt ==
  "Summarize key findings from the research plan, highlighting distinct angles and open questions."

\* line 37
plan_user_prompt(query, goal) ==
  "Query: " \o query \o "\nGoal: " \o (IF Truthy(goal) THEN goal ELSE "Provide best answer")

bullet_lines(plan) == SelectSeq(splitlines(plan), LAMBDA segment : startswith(segment, BulletMarker))

task_of(segment) == strip(strip(segment, {"-", " "}), Whitespace)

\* variant of tasks_of without the fallback to the query
tasks_of_no_fallback(plan, query) ==
  LET segments == bullet_lines(plan)
  IN  [i \in 1..Len(segments) |-> task_of(segments[i])]

\* lines 43-45
tasks_of(plan, query) ==
  LET segments == bullet_lines(plan)
      tasks == [i \in 1..Len(segments) |-> task_of(segments[i])]
  IN  IF Len(tasks) = 0 THEN <<query>> ELSE tasks

\* variant of subagent_tasks without the cap
subagent_tasks_uncapped(tasks) == tasks

\* line 47: the tasks the subagents are built for
subagent_tasks(tasks) == Upto(tasks, MaxSubagents)

\* lines 78-88
final_report_of(citation_payload, summary) == get(citation_payload, "report", summary)

format_citation(citation) ==
  [citation |-> get(citation, "citation", ""), url |-> get(citation, "url", "")]

formatted_citations_of(citation_payload) ==
  LET final_citations == get(citation_payload, "citations", <<>>)
  IN  [i \in 1..Len(final_citations) |-> format_citation(final_citations[i])]

----------------------------------------------------------------------------
(* tools/search.py and agents/subagent.py: the pure parts *)

SearchResult(title, snippet, url) == [title |-> title, snippet |-> snippet, url |-> url]

\* line 31 of search.py: a blank query is answered without a call
blank(query) == ~Truthy(query) \/ strip(query, Whitespace) = ""

\* line 16 of subagent.py: the first 24 characters of the task name the step
SubagentNameLength == 24

subagent_name(task) == "Subagent: " \o Upto(task, SubagentNameLength)

evidence_line(res) == "- " \o res.title \o ": " \o res.snippet

\* lines 25-34
research_prompt(task, query, search_results) ==
  "You are a specialized research subagent."
  \o "\nTask: " \o task \o "\nOverall query: " \o query \o "\n"
  \o "Evidence:\n" \o join("\n", [i \in 1..Len(search_results) |-> evidence_line(search_results[i])]) \o "\n"
  \o "Synthesize a concise bullet summary referencing top sources."

\* [res.url for res in search_results]
urls_of(search_results) == [i \in 1..Len(search_results) |-> search_results[i].url]

\* line 42: what run returns
subagent_output(result, search_results) ==
  [summary |-> result, sources |-> urls_of(search_results)]

----------------------------------------------------------------------------
(* agents/citation.py: the pure parts *)

Chars(s) == {CharAt(s, i) : i \in 1..Len(s)}

\* \w of the url pattern, for ASCII text
WordChars == Chars("abcdefghijklmnopqrstuvwxyzABCDEFGHIJKLMNOPQRSTUVWXYZ0123456789_")

HexChars == Chars("0123456789abcdefABCDEF")

\* the length of one repetition of (?:[-\w.]|(?:%[\da-fA-F]{2})) at position i of s, or 0
url_unit(s, i) ==
  IF i > Len(s) THEN 0
  ELSE IF CharAt(s, i) \in WordChars \cup {"-", "."} THEN 1
  ELSE IF /\ CharAt(s, i) = "%" /\ i + 2 <= Len(s)
          /\ CharAt(s, i + 1) \in HexChars /\ CharAt(s, i + 2) \in HexChars THEN 3
  ELSE 0

\* the end of the longest run of repetitions that starts at position i
RECURSIVE url_end(_, _)
url_end(s, i) == IF url_unit(s, i) = 0 THEN i - 1 ELSE url_end(s, i + url_unit(s, i))

\* the length of the scheme https?:// at position i of s, or 0
url_scheme(s, i) ==
  IF startswith(From(s, i - 1), "https://") THEN 8
  ELSE IF startswith(From(s, i - 1), "http://") THEN 7
  ELSE 0

\* url_pattern.findall(source), scanning from position i
RECURSIVE findall_urls(_, _)
findall_urls(s, i) ==
  IF i > Len(s) THEN <<>>
  ELSE LET k == url_scheme(s, i)
           e == url_end(s, i + k)
       IN  IF k > 0 /\ e >= i + k
           THEN <<SubSeq(s, i, e)>> \o findall_urls(s, e + 1)
           ELSE findall_urls(s, i + 1)

\* _extract_urls_from_sources
extract_urls_from_sources(sources) ==
  Flatten([i \in 1..Len(sources) |-> findall_urls(sources[i], 1)])

\* _format_citations: one entry per url found, numbered from 1; the marker
\* [k] is appended to the report unless the report holds it already
RECURSIVE add_markers(_, _, _)
add_markers(report, k, n) ==
  IF k > n THEN report
  ELSE LET citation_text == "[" \o ToString(k) \o "]"
       IN  add_markers(IF contains(report, citation_text) THEN report
                       ELSE report \o " " \o citation_text, k + 1, n)

format_citations(report, sources) ==
  LET urls == extract_urls_from_sources(Flatten(sources))
  IN  [report |-> add_markers(report, 1, Len(urls)),
       citations |-> [k \in 1..Len(urls) |->
                        [citation |-> "Source " \o ToString(k), url |-> urls[k]]]]

\* lines 63-72: the lines describing the findings in the prompt
RECURSIVE findings_text(_, _)
findings_text(findings, idx) ==
  IF idx > Len(findings) THEN <<>>
  ELSE LET summary == get(findings[idx], "summary", "")
           sources == get(findings[idx], "sources", <<>>)
       IN  (IF Truthy(summary) THEN <<"Finding " \o ToString(idx) \o ": " \o summary>> ELSE <<>>)
           \o (IF Len(sources) > 0 THEN <<"Sources: " \o join(", ", sources)>> ELSE <<>>)
           \o findings_text(findings, idx + 1)

all_sources(findings) == [i \in 1..Len(findings) |-> get(findings[i], "sources", <<>>)]

\* lines 75-94
citation_prompt(findings) ==
  join("\n",
    << "You are a research citation specialist. Your task is to:",
       "1. Synthesize the research findings into a coherent report",
       "2. Add proper citations with source URLs",
       "3. Format the output as JSON with 'report' and 'citations' keys",
       "",
       "Research Findings:" >>
    \o findings_text(findings, 1) \o
    << "",
       "Instructions:",
       "- Create a comprehensive research report based on the findings",
       "- Include inline citations like [1], [2], etc. in the report",
       "- List all sources with their URLs in the citations array",
       "- Make sure each citation has both 'citation' text and 'url' if available",
       "",
       "Output format:",
       "{\"report\": \"Your synthesized report with [1], [2] citations...\", \"citations\": [{\"citation\": \"Source 1\", \"url\": \"https://example.com\"}, ...]}" >>)

\* re.search(r'\{.*\}', response, re.DOTALL): from the first { to the last }
\* after it; None when there is no such pair
json_match(response) ==
  LET opens == positions(response, "{")
      closes == positions(response, "}")
  IN  IF opens # {} /\ closes # {} /\ Max(closes) > Min(opens)
      THEN SubSeq(response, Min(opens), Max(closes))
      ELSE None

\* json.loads, as a table over the JSON documents the model lets the
\* completion call return; any other text in braces the model uses is not
\* JSON and raises JSONDecodeError
JsonDocuments ==
  ("{\"report\": \"r\", \"citations\": []}" :> [report |-> "r", citations |-> <<>>])
  @@ ("{\"report\": \"\", \"citations\": []}" :> [report |-> "", citations |-> <<>>])
  @@ ("{\"report\": \"r\"}" :> [report |-> "r"])
  @@ ("{\"citations\": []}" :> [citations |-> <<>>])
  @@ ("{\"report\": \"r [1]\", \"citations\": [{\"citation\": \"c1\", \"url\": \"https://a.org/p\"}, {\"citation\": \"c2\"}, {\"url\": \"https://b.org\"}]}"
        :> [report |-> "r [1]",
            citations |-> << [citation |-> "c1", url |-> "https://a.org/p"],
                             [citation |-> "c2"],
                             [url |-> "https://b.org"] >>])

JSONDecodeError == [type |-> "JSONDecodeError", text |-> "Expecting property name enclosed in double quotes"]

json_loads(text) == IF text \in DOMAIN JsonDocuments THEN JsonDocuments[text] ELSE JSONDecodeError

IsJSONDecodeError(v) == "type" \in DOMAIN v /\ v.type = "JSONDecodeError"

\* lines 97-114: the dict made of the response
parse_response(response, findings) ==
  LET matched == json_match(response)
  IN  IF matched = None
      THEN [report |-> response, citations |-> <<>>]
      ELSE IF IsJSONDecodeError(json_loads(matched))
      THEN format_citations(response, all_sources(findings))
      ELSE json_loads(matched)

\* Faulty variant of valid_citation: the entry is kept as the model wrote it
valid_citation_as_given(citation) == citation

\* lines 117-129: the entries with a citation key, as {citation, url}
valid_citation(citation) == [citation |-> citation.citation, url |-> get(citation, "url", "")]

valid_citations(citation_data) ==
  LET kept == SelectSeq(get(citation_data, "citations", <<>>),
                        LAMBDA c : "citation" \in DOMAIN c)
  IN  [i \in 1..Len(kept) |-> valid_citation(kept[i])]

\* line 129: citation_data["citations"] = valid_citations
citation_output(citation_data) == Put(citation_data, "citations", valid_citations(citation_data))

\* line 135: the first 200 characters of a longer report, with an ellipsis
ReportPreviewLength == 200

report_preview(citation_data) ==
  LET report == get(citation_data, "report", "")
  IN  IF Len(report) > ReportPreviewLength THEN Upto(report, ReportPreviewLength) \o "..." ELSE report

----------------------------------------------------------------------------
(* The steps of the agents.  Every store call of a run method is one step;  *)
(* a run method is suspended only while its completion call, its search     *)
(* call or the run method it awaits is in progress.                         *)

\* str(exc)
str(exc) == exc.text

\* a store call that writes the run and refreshes its timestamp
StoreWrite(newRuns) ==
  /\ runs' = newRuns
  /\ clock' = clock + 1
  /\ UNCHANGED <<events, uuidCount, busVars>>

\* no store call in this step
NoStoreCall == UNCHANGED <<storeVars, busVars>>

\* BaseAgent.emit_event by the step with frame f
Emit(f, type, payload) ==
  /\ AddEvent(emitted(f.run_id, f.agent_id, type, payload, clock))
  /\ clock' = clock + 1
  /\ UNCHANGED <<runs, uuidCount, subscribers>>

\* BaseAgent.register, first call: run_store.add_agent
RegisterAgent(f, brief) ==
  /\ runs' = add_agent(runs, f.run_id, Uuid(uuidCount + 1), f.name, f.role, brief, clock)
  /\ uuidCount' = uuidCount + 1
  /\ clock' = clock + 1
  /\ UNCHANGED <<events, busVars>>

\* BaseAgent.register, second call: the agent-spawned event
EmitSpawned(f, brief) ==
  Emit(f, EventType.AGENT_SPAWNED, [name |-> f.name, role |-> f.role, brief |-> brief])

\* Faulty variant of mark_status: for a step without agent id the run's
\* update timestamp is refreshed
mark_status_touches_run(f, status, error) ==
  IF Truthy(f.agent_id)
  THEN StoreWrite(update_agent_status(runs, f.run_id, f.agent_id, status, error, clock))
  ELSE StoreWrite([runs EXCEPT ![f.run_id] = update_timestamp(@, clock)])

\* BaseAgent.mark_status: nothing is done for a step without agent id
mark_status(f, status, error) ==
  IF Truthy(f.agent_id)
  THEN StoreWrite(update_agent_status(runs, f.run_id, f.agent_id, status, error, clock))
  ELSE NoStoreCall

\* the frames of the run methods on entry
LeadResearcherAgent(run_id, query, goal) ==
  [pc |-> "register", run_id |-> run_id, name |-> "Lead Researcher",
   role |-> AgentRole.LEAD_RESEARCHER, agent_id |-> None, query |-> query, goal |-> goal,
   plan |-> None, tasks |-> <<>>, subagents |-> <<>>, idx |-> 0, subagent_outputs |-> <<>>,
   summary |-> None, final_report |-> None, formatted_citations |-> <<>>, exc |-> None]

ResearchSubagent(run_id, task, query) ==
  [pc |-> "register", run_id |-> run_id, name |-> subagent_name(task),
   role |-> AgentRole.SUBAGENT, agent_id |-> None, task |-> task, query |-> query,
   search_results |-> <<>>, result |-> None]

CitationAgent(run_id, findings) ==
  [pc |-> "register", run_id |-> run_id, name |-> "Citation Agent",
   role |-> AgentRole.CITATION, agent_id |-> None, findings |-> findings,
   citation_data |-> <<>>]

\* a run method that has ended by raising exc
Failed(f, exc) == [pc |-> "raised", run_id |-> f.run_id, agent_id |-> f.agent_id, exc |-> exc]

OnlyOrch == UNCHANGED <<obsVars, invVars, lead, sub, cit>>

OnlyLead == UNCHANGED <<obsVars, invVars, orch, sub, cit>>

OnlySub == UNCHANGED <<obsVars, invVars, orch, lead, cit>>

OnlyCit == UNCHANGED <<obsVars, invVars, orch, lead, sub>>

----------------------------------------------------------------------------
(* api/routes.py: POST /api/runs and its background task *)

\* lines 58-63 and 80-81: the run is created and orchestrate is scheduled
ApiCreateRun(query, goal) ==
  /\ orch.pc = "idle"
  /\ Truthy(query)
  /\ LET run_id == Uuid(uuidCount + 1) IN
       /\ runs' = create_run(runs, run_id, query, goal, clock)
       /\ events' = Put(events, run_id, <<>>)
       /\ orch' = [pc |-> "start", run_id |-> run_id, query |-> query, goal |-> goal]
  /\ uuidCount' = uuidCount + 1
  /\ clock' = clock + 2
  /\ UNCHANGED <<busVars, obsVars, invVars, lead, sub, cit>>

\* lines 67-68
OrchStart ==
  /\ orch.pc = "start"
  /\ lead' = LeadResearcherAgent(orch.run_id, orch.query, orch.goal)
  /\ orch' = [orch EXCEPT !.pc = "await_lead"]
  /\ NoStoreCall
  /\ UNCHANGED <<obsVars, invVars, sub, cit>>

\* Faulty variant of OrchReturn: the guard marks the run Failed although
\* agent.run() has returned
OrchReturnMarksFailed ==
  /\ orch.pc = "await_lead"
  /\ lead.pc = "returned"
  /\ StoreWrite(update_run_status(runs, orch.run_id, RunStatus.FAILED, clock))
  /\ orch' = [orch EXCEPT !.pc = "done"]
  /\ OnlyOrch

\* line 68: agent.run() has returned
OrchReturn ==
  /\ orch.pc = "await_lead"
  /\ lead.pc = "returned"
  /\ orch' = [orch EXCEPT !.pc = "done"]
  /\ NoStoreCall
  /\ OnlyOrch

\* lines 69-70: agent.run() has raised
OrchExceptStatus ==
  /\ orch.pc = "await_lead"
  /\ lead.pc = "raised"
  /\ StoreWrite(update_run_status(runs, orch.run_id, RunStatus.FAILED, clock))
  /\ orch' = [pc |-> "except_event", run_id |-> orch.run_id, query |-> orch.query,
              goal |-> orch.goal, exc |-> lead.exc]
  /\ OnlyOrch

\* lines 71-77
OrchExceptEvent ==
  /\ orch.pc = "except_event"
  /\ AddEvent(RunEvent(orch.run_id, EventType.RUN_FAILED, clock + 1,
                       [error |-> str(orch.exc)], None))
  /\ clock' = clock + 1
  /\ orch' = [orch EXCEPT !.pc = "done"]
  /\ UNCHANGED <<runs, uuidCount, subscribers>>
  /\ OnlyOrch

----------------------------------------------------------------------------
(* agents/lead_researcher.py: LeadResearcherAgent.run, statement by statement *)

lead_brief == "Investigate: " \o lead.query

\* line 26
LeadRegister ==
  /\ lead.pc = "register"
  /\ RegisterAgent(lead, lead_brief)
  /\ lead' = [lead EXCEPT !.pc = "spawned", !.agent_id = Uuid(uuidCount + 1)]
  /\ OnlyLead

LeadSpawned ==
  /\ lead.pc = "spawned"
  /\ EmitSpawned(lead, lead_brief)
  /\ lead' = [lead EXCEPT !.pc = "mark_running"]
  /\ OnlyLead

\* line 27
LeadMarkRunning ==
  /\ lead.pc = "mark_running"
  /\ mark_status(lead, AgentStatus.RUNNING, None)
  /\ lead' = [lead EXCEPT !.pc = "run_running"]
  /\ OnlyLead

\* line 28
LeadRunRunning ==
  /\ lead.pc = "run_running"
  /\ StoreWrite(update_run_status(runs, lead.run_id, RunStatus.RUNNING, clock))
  /\ lead' = [lead EXCEPT !.pc = "emit_started"]
  /\ OnlyLead

\* line 29
LeadEmitStarted ==
  /\ lead.pc = "emit_started"
  /\ Emit(lead, EventType.RUN_STARTED, [query |-> lead.query, goal |-> lead.goal])
  /\ lead' = [lead EXCEPT !.pc = "plan"]
  /\ OnlyLead

\* lines 32-39: the planning call
LeadPlan ==
  /\ lead.pc = "plan"
  /\ inv' = plan_with_llm("plan", lead.run_id, lead.agent_id,
                          plan_user_prompt(lead.query, lead.goal), plan_system_prompt,
                          DefaultRetries)
  /\ lead' = [lead EXCEPT !.pc = "await_plan"]
  /\ NoStoreCall
  /\ UNCHANGED <<obsVars, timeoutsLeft, orch, sub, cit>>

\* line 36: the planning call has returned
LeadPlanReturned ==
  /\ lead.pc = "await_plan"
  /\ inv.pc = "returned"
  /\ lead' = [lead EXCEPT !.pc = "save_plan", !.plan = inv.result]
  /\ inv' = Idle
  /\ NoStoreCall
  /\ UNCHANGED <<obsVars, timeoutsLeft, orch, sub, cit>>

\* Faulty variant of LeadSavePlan: the plan is announced and not saved
LeadSavePlanSkipped ==
  /\ lead.pc = "save_plan"
  /\ NoStoreCall
  /\ lead' = [lead EXCEPT !.pc = "emit_plan"]
  /\ OnlyLead

\* line 40
LeadSavePlan ==
  /\ lead.pc = "save_plan"
  /\ StoreWrite(save_plan(runs, lead.run_id, lead.plan, clock))
  /\ lead' = [lead EXCEPT !.pc = "emit_plan"]
  /\ OnlyLead

\* line 41
LeadEmitPlan ==
  /\ lead.pc = "emit_plan"
  /\ Emit(lead, EventType.PLAN_UPDATED, [plan |-> lead.plan])
  /\ lead' = [lead EXCEPT !.pc = "tasks"]
  /\ OnlyLead

\* lines 43-48: the tasks, and one subagent object for each of the first three
LeadTasks ==
  /\ lead.pc = "tasks"
  /\ LET tasks == tasks_of(lead.plan, lead.query) IN
       lead' = [lead EXCEPT !.pc = "fanout", !.tasks = tasks,
                            !.subagents = subagent_tasks(tasks), !.idx = 1,
                            !.subagent_outputs = <<>>]
  /\ NoStoreCall
  /\ OnlyLead

\* lines 49-50: the next subagent is run and awaited
LeadRunSubagent ==
  /\ lead.pc = "fanout"
  /\ lead.idx <= Len(lead.subagents)
  /\ sub' = ResearchSubagent(lead.run_id, lead.subagents[lead.idx], lead.query)
  /\ lead' = [lead EXCEPT !.pc = "await_sub"]
  /\ NoStoreCall
  /\ UNCHANGED <<obsVars, invVars, orch, cit>>

\* lines 50-51: the subagent has returned
LeadSubagentReturned ==
  /\ lead.pc = "await_sub"
  /\ sub.pc = "returned"
  /\ lead' = [lead EXCEPT !.pc = "fanout", !.idx = lead.idx + 1,
                          !.subagent_outputs = Append(lead.subagent_outputs, sub.output)]
  /\ sub' = Idle
  /\ NoStoreCall
  /\ UNCHANGED <<obsVars, invVars, orch, cit>>

\* lines 53-57: after the loop, the summary call over all the tasks
LeadSummary ==
  /\ lead.pc = "fanout"
  /\ lead.idx > Len(lead.subagents)
  /\ inv' = plan_with_llm("summary", lead.run_id, lead.agent_id, join("\n", lead.tasks),
                          summary_system_prompt, DefaultRetries)
  /\ lead' = [lead EXCEPT !.pc = "await_summary"]
  /\ NoStoreCall
  /\ UNCHANGED <<obsVars, timeoutsLeft, orch, sub, cit>>

\* line 54: the summary call has returned
LeadSummaryReturned ==
  /\ lead.pc = "await_summary"
  /\ inv.pc = "returned"
  /\ lead' = [lead EXCEPT !.pc = "citation", !.summary = inv.result]
  /\ inv' = Idle
  /\ NoStoreCall
  /\ UNCHANGED <<obsVars, timeoutsLeft, orch, sub, cit>>

\* lines 60-69: the findings are handed to a citation agent, which is run
LeadCitation ==
  /\ lead.pc = "citation"
  /\ cit' = CitationAgent(lead.run_id,
               [i \in 1..Len(lead.subagent_outputs) |->
                  [summary |-> get(lead.subagent_outputs[i], "summary", ""),
                   sources |-> get(lead.subagent_outputs[i], "sources", <<>>)]])
  /\ lead' = [lead EXCEPT !.pc = "await_cit"]
  /\ NoStoreCall
  /\ UNCHANGED <<obsVars, invVars, orch, sub>>

\* lines 69-88: the citation agent has returned a dict
LeadCitationReturned ==
  /\ lead.pc = "await_cit"
  /\ cit.pc = "returned"
  /\ lead' = [lead EXCEPT !.pc = "save_report",
                          !.final_report = final_report_of(cit.output, lead.summary),
                          !.formatted_citations = formatted_citations_of(cit.output)]
  /\ cit' = Idle
  /\ NoStoreCall
  /\ UNCHANGED <<obsVars, invVars, orch, sub>>

\* lines 90-94
LeadSaveReport ==
  /\ lead.pc = "save_report"
  /\ StoreWrite(save_final_report(runs, lead.run_id, lead.final_report,
                                  lead.formatted_citations, clock))
  /\ lead' = [lead EXCEPT !.pc = "evaluate"]
  /\ OnlyLead

\* lines 96-103: for a non-empty report an EvaluationAgent is constructed;
\* its __init__ (evaluator.py line 44) reads AgentRole.EVALUATOR, and the
\* constructor call stands outside the try of line 104
LeadEvaluate ==
  /\ lead.pc = "evaluate"
  /\ lead' = IF ~Truthy(lead.final_report)
             THEN [lead EXCEPT !.pc = "emit_completed"]
             ELSE IF HasMember(AgentRole, "EVALUATOR")
             THEN [lead EXCEPT !.pc = "await_evaluation"]
             ELSE [lead EXCEPT !.pc = "except_status",
                               !.exc = [type |-> "AttributeError", text |-> "EVALUATOR"]]
  /\ NoStoreCall
  /\ OnlyLead

\* lines 119-131, with evaluation_payload None
LeadEmitCompleted ==
  /\ lead.pc = "emit_completed"
  /\ Emit(lead, EventType.RUN_COMPLETED,
          [summary |-> lead.summary, citation_count |-> Len(lead.formatted_citations),
           report_length |-> Len(lead.final_report),
           evaluation |-> [overall_score |-> None, passed |-> None, rubric_scores |-> None]])
  /\ lead' = [lead EXCEPT !.pc = "run_completed"]
  /\ OnlyLead

\* Faulty variant of LeadRunCompleted: the lead step goes on to its return
\* without marking the run Completed
LeadRunCompletedSkipped ==
  /\ lead.pc = "run_completed"
  /\ lead' = [lead EXCEPT !.pc = "mark_completed"]
  /\ NoStoreCall
  /\ OnlyLead

\* line 132
LeadRunCompleted ==
  /\ lead.pc = "run_completed"
  /\ StoreWrite(update_run_status(runs, lead.run_id, RunStatus.COMPLETED, clock))
  /\ lead' = [lead EXCEPT !.pc = "mark_completed"]
  /\ OnlyLead

\* line 133, and the return
LeadMarkCompleted ==
  /\ lead.pc = "mark_completed"
  /\ mark_status(lead, AgentStatus.COMPLETED, None)
  /\ lead' = [lead EXCEPT !.pc = "returned"]
  /\ OnlyLead

\* Faulty variant of LeadCatch: after the exception of a subagent the lead
\* plans again
LeadCatchReplans ==
  /\ \/ /\ lead.pc \in {"await_plan", "await_summary"}
        /\ inv.pc = "raised"
        /\ lead' = [lead EXCEPT !.pc = "except_status", !.exc = inv.exc]
        /\ inv' = Idle
        /\ UNCHANGED <<sub, cit>>
     \/ /\ lead.pc = "await_sub"
        /\ sub.pc = "raised"
        /\ lead' = [lead EXCEPT !.pc = "plan"]
        /\ sub' = Idle
        /\ UNCHANGED <<inv, cit>>
     \/ /\ lead.pc = "await_cit"
        /\ cit.pc = "raised"
        /\ lead' = [lead EXCEPT !.pc = "except_status", !.exc = cit.exc]
        /\ cit' = Idle
        /\ UNCHANGED <<inv, sub>>
  /\ NoStoreCall
  /\ UNCHANGED <<obsVars, timeoutsLeft, orch>>

\* line 135: an exception of the planning call, of a subagent, of the summary
\* call or of the citation agent arrives in the try block
LeadCatch ==
  /\ \/ /\ lead.pc \in {"await_plan", "await_summary"}
        /\ inv.pc = "raised"
        /\ lead' = [lead EXCEPT !.pc = "except_status", !.exc = inv.exc]
        /\ inv' = Idle
        /\ UNCHANGED <<sub, cit>>
     \/ /\ lead.pc = "await_sub"
        /\ sub.pc = "raised"
        /\ lead' = [lead EXCEPT !.pc = "except_status", !.exc = sub.exc]
        /\ sub' = Idle
        /\ UNCHANGED <<inv, cit>>
     \/ /\ lead.pc = "await_cit"
        /\ cit.pc = "raised"
        /\ lead' = [lead EXCEPT !.pc = "except_status", !.exc = cit.exc]
        /\ cit' = Idle
        /\ UNCHANGED <<inv, sub>>
  /\ NoStoreCall
  /\ UNCHANGED <<obsVars, timeoutsLeft, orch>>

\* line 136
LeadExceptStatus ==
  /\ lead.pc = "except_status"
  /\ StoreWrite(update_run_status(runs, lead.run_id, RunStatus.FAILED, clock))
  /\ lead' = [lead EXCEPT !.pc = "except_mark"]
  /\ OnlyLead

\* line 137
LeadExceptMark ==
  /\ lead.pc = "except_mark"
  /\ mark_status(lead, AgentStatus.FAILED, str(lead.exc))
  /\ lead' = [lead EXCEPT !.pc = "except_emit"]
  /\ OnlyLead

\* lines 138-139: the run-failed event, and the exception is raised again
LeadExceptEmit ==
  /\ lead.pc = "except_emit"
  /\ Emit(lead, EventType.RUN_FAILED, [error |-> str(lead.exc)])
  /\ lead' = [lead EXCEPT !.pc = "raised"]
  /\ OnlyLead

----------------------------------------------------------------------------
(* agents/subagent.py: ResearchSubagent.run, statement by statement.  The   *)
(* method has no exception handler: what the search call or the completion  *)
(* call raises ends it.                                                     *)

\* line 22
SubRegister ==
  /\ sub.pc = "register"
  /\ RegisterAgent(sub, sub.task)
  /\ sub' = [sub EXCEPT !.pc = "spawned", !.agent_id = Uuid(uuidCount + 1)]
  /\ OnlySub

SubSpawned ==
  /\ sub.pc = "spawned"
  /\ EmitSpawned(sub, sub.task)
  /\ sub' = [sub EXCEPT !.pc = "mark_running"]
  /\ OnlySub

\* line 23
SubMarkRunning ==
  /\ sub.pc = "mark_running"
  /\ mark_status(sub, AgentStatus.RUNNING, None)
  /\ sub' = [sub EXCEPT !.pc = "search"]
  /\ OnlySub

\* line 24: the search call; a blank task is answered at once with no result
SubSearch ==
  /\ sub.pc = "search"
  /\ sub' = IF blank(sub.task)
            THEN [sub EXCEPT !.pc = "prompt", !.search_results = <<>>]
            ELSE [sub EXCEPT !.pc = "await_search"]
  /\ NoStoreCall
  /\ OnlySub

\* line 24: the search call has returned
SubSearchReturned(results) ==
  /\ sub.pc = "await_search"
  /\ sub' = [sub EXCEPT !.pc = "prompt", !.search_results = results]
  /\ NoStoreCall
  /\ OnlySub

\* line 24: the search call has raised
SubSearchRaised(exc) ==
  /\ sub.pc = "await_search"
  /\ sub' = Failed(sub, exc)
  /\ NoStoreCall
  /\ OnlySub

\* lines 25-35: the completion call
SubPrompt ==
  /\ sub.pc = "prompt"
  /\ inv' = plan_with_llm("research", sub.run_id, sub.agent_id,
                          research_prompt(sub.task, sub.query, sub.search_results), None,
                          DefaultRetries)
  /\ sub' = [sub EXCEPT !.pc = "await_llm"]
  /\ NoStoreCall
  /\ UNCHANGED <<obsVars, timeoutsLeft, orch, lead, cit>>

\* line 35: the completion call has returned or raised
SubLlmEnded ==
  /\ sub.pc = "await_llm"
  /\ inv.pc \in {"returned", "raised"}
  /\ sub' = IF inv.pc = "returned"
            THEN [sub EXCEPT !.pc = "record_append", !.result = inv.result]
            ELSE Failed(sub, inv.exc)
  /\ inv' = Idle
  /\ NoStoreCall
  /\ UNCHANGED <<obsVars, timeoutsLeft, orch, lead, cit>>

\* record_finding without its finding-recorded event
SubRecordAppendNoEvent ==
  /\ sub.pc = "record_append"
  /\ IF Truthy(sub.agent_id)
     THEN StoreWrite(append_finding(runs, sub.run_id, sub.agent_id, sub.result, clock))
     ELSE NoStoreCall
  /\ sub' = [sub EXCEPT !.pc = "emit_completed"]
  /\ OnlySub

\* line 36, record_finding: run_store.append_finding
SubRecordAppend ==
  /\ sub.pc = "record_append"
  /\ IF Truthy(sub.agent_id)
     THEN /\ StoreWrite(append_finding(runs, sub.run_id, sub.agent_id, sub.result, clock))
          /\ sub' = [sub EXCEPT !.pc = "record_emit"]
     ELSE /\ NoStoreCall
          /\ sub' = [sub EXCEPT !.pc = "emit_completed"]
  /\ OnlySub

\* line 36, record_finding: the finding-recorded event
SubRecordEmit ==
  /\ sub.pc = "record_emit"
  /\ Emit(sub, EventType.FINDING_RECORDED, [content |-> sub.result])
  /\ sub' = [sub EXCEPT !.pc = "emit_completed"]
  /\ OnlySub

\* lines 37-40
SubEmitCompleted ==
  /\ sub.pc = "emit_completed"
  /\ Emit(sub, EventType.AGENT_COMPLETED,
          [result |-> sub.result, sources |-> urls_of(sub.search_results)])
  /\ sub' = [sub EXCEPT !.pc = "mark_completed"]
  /\ OnlySub

\* lines 41-42
SubMarkCompleted ==
  /\ sub.pc = "mark_completed"
  /\ mark_status(sub, AgentStatus.COMPLETED, None)
  /\ sub' = [pc |-> "returned", run_id |-> sub.run_id, agent_id |-> sub.agent_id,
             output |-> subagent_output(sub.result, sub.search_results)]
  /\ OnlySub

----------------------------------------------------------------------------
(* agents/citation.py: CitationAgent.run, statement by statement *)

citation_brief == "Attach citations to synthesized report"

\* line 56
CitRegister ==
  /\ cit.pc = "register"
  /\ RegisterAgent(cit, citation_brief)
  /\ cit' = [cit EXCEPT !.pc = "spawned", !.agent_id = Uuid(uuidCount + 1)]
  /\ OnlyCit

CitSpawned ==
  /\ cit.pc = "spawned"
  /\ EmitSpawned(cit, citation_brief)
  /\ cit' = [cit EXCEPT !.pc = "mark_running"]
  /\ OnlyCit

\* line 57
CitMarkRunning ==
  /\ cit.pc = "mark_running"
  /\ mark_status(cit, AgentStatus.RUNNING, None)
  /\ cit' = [cit EXCEPT !.pc = "prompt"]
  /\ OnlyCit

\* lines 59-94: the completion call
CitPrompt ==
  /\ cit.pc = "prompt"
  /\ inv' = plan_with_llm("citation", cit.run_id, cit.agent_id, citation_prompt(cit.findings),
                          None, DefaultRetries)
  /\ cit' = [cit EXCEPT !.pc = "await_llm"]
  /\ NoStoreCall
  /\ UNCHANGED <<obsVars, timeoutsLeft, orch, lead, sub>>

\* lines 94-129: the completion call has returned, and its text is made the
\* dict of the report and its valid citations; or it has raised
CitLlmEnded ==
  /\ cit.pc = "await_llm"
  /\ inv.pc \in {"returned", "raised"}
  /\ cit' = IF inv.pc = "returned"
            THEN [cit EXCEPT !.pc = "emit_citations",
                             !.citation_data =
                                citation_output(parse_response(inv.result, cit.findings))]
            ELSE Failed(cit, inv.exc)
  /\ inv' = Idle
  /\ NoStoreCall
  /\ UNCHANGED <<obsVars, timeoutsLeft, orch, lead, sub>>

\* lines 132-136
CitEmitCitations ==
  /\ cit.pc = "emit_citations"
  /\ Emit(cit, EventType.CITATIONS_GENERATED,
          [citations |-> cit.citation_data.citations,
           citation_count |-> Len(cit.citation_data.citations),
           report_preview |-> report_preview(cit.citation_data)])
  /\ cit' = [cit EXCEPT !.pc = "emit_completed"]
  /\ OnlyCit

\* lines 138-142
CitEmitCompleted ==
  /\ cit.pc = "emit_completed"
  /\ Emit(cit, EventType.AGENT_COMPLETED,
          [citation_response |-> cit.citation_data,
           report_length |-> Len(get(cit.citation_data, "report", "")),
           citation_count |-> Len(cit.citation_data.citations)])
  /\ cit' = [cit EXCEPT !.pc = "mark_completed"]
  /\ OnlyCit

\* lines 143-144
CitMarkCompleted ==
  /\ cit.pc = "mark_completed"
  /\ mark_status(cit, AgentStatus.COMPLETED, None)
  /\ cit' = [pc |-> "returned", run_id |-> cit.run_id, agent_id |-> cit.agent_id,
             output |-> cit.citation_data]
  /\ OnlyCit

----------------------------------------------------------------------------
(* SpecPipeline: POST /api/runs for one query, and the background task it   *)
(* schedules, against completion and search calls that can return or raise  *)
(* at every call.                                                           *)

Queries == {"q"}

\* RunCreateRequest.goal is optional; the requests leave it out
Goals == {None}

\* the plan with bullet lines for the tasks T1..Tn, bare or between other lines
PlanBullets(n) == [i \in 1..n |-> BulletMarker \o "T" \o ToString(i)]

PlanTexts ==
  {join("\n", PlanBullets(n)) : n \in 0..MaxBullets}
  \cup {join("\n", <<"Plan:">> \o PlanBullets(n) \o <<"-note", " - indented">>) : n \in 0..MaxBullets}
  \cup {"* star\n- - T1 - \r\n- \n-x"}

SearchResultLists == {<<>>, <<SearchResult("Title", "snippet", "https://e.com/a")>>}

SearchErrors == {[type |-> "ConnectionError", text |-> "search failed"]}

CitationTexts ==
  DOMAIN JsonDocuments \cup {"r", "{r}"}

\* what the completion call in progress may return
Completions ==
  IF inv.pc = "idle" THEN {}
  ELSE CASE inv.caller = "plan" -> PlanTexts
         [] inv.caller = "research" -> {"f"}
         [] inv.caller = "summary" -> {"s"}
         [] inv.caller = "citation" -> CitationTexts
         [] OTHER -> CompletionTexts

InitPipeline ==
  /\ runs = <<>>
  /\ events = <<>>
  /\ subscribers = <<>>
  /\ queues = <<>>
  /\ clock = 0
  /\ uuidCount = 0
  /\ history = <<>>
  /\ snaps = <<>>
  /\ frames = <<>>
  /\ handles = <<>>
  /\ inv = Idle
  /\ timeoutsLeft = MaxTimeouts
  /\ orch = Idle
  /\ lead = Idle
  /\ sub = Idle
  /\ cit = Idle

NextPipeline ==
  \/ \E query \in Queries, goal \in Goals : ApiCreateRun(query, goal)
  \/ OrchStart \/ OrchReturn \/ OrchExceptStatus \/ OrchExceptEvent
  \/ LeadRegister \/ LeadSpawned \/ LeadMarkRunning \/ LeadRunRunning \/ LeadEmitStarted
  \/ LeadPlan \/ LeadPlanReturned \/ LeadSavePlan \/ LeadEmitPlan \/ LeadTasks
  \/ LeadRunSubagent \/ LeadSubagentReturned \/ LeadSummary \/ LeadSummaryReturned
  \/ LeadCitation \/ LeadCitationReturned \/ LeadSaveReport \/ LeadEvaluate
  \/ LeadEmitCompleted \/ LeadRunCompleted \/ LeadMarkCompleted
  \/ LeadCatch \/ LeadExceptStatus \/ LeadExceptMark \/ LeadExceptEmit
  \/ SubRegister \/ SubSpawned \/ SubMarkRunning \/ SubSearch
  \/ \E results \in SearchResultLists : SubSearchReturned(results)
  \/ \E exc \in SearchErrors : SubSearchRaised(exc)
  \/ SubPrompt \/ SubLlmEnded \/ SubRecordAppend \/ SubRecordEmit
  \/ SubEmitCompleted \/ SubMarkCompleted
  \/ CitRegister \/ CitSpawned \/ CitMarkRunning \/ CitPrompt \/ CitLlmEnded
  \/ CitEmitCitations \/ CitEmitCompleted \/ CitMarkCompleted
  \/ InvAttempt \/ InvWake
  \/ \E text \in Completions : InvReturn(text)
  \/ \E exc \in GatewayTimeouts \cup UpstreamErrors : InvRaise(exc)

SpecPipeline == InitPipeline /\ [][NextPipeline]_vars

----------------------------------------------------------------------------
(* C1 *)

\* The sequential meaning of the agent operations: what the agents of run_id
\* are after the calls of h have been made one after the other, in h's order.
RECURSIVE SeqAgents(_, _)
SeqAgents(h, run_id) ==
  IF h = <<>> THEN <<>>
  ELSE LET before == SeqAgents(SubSeq(h, 1, Len(h) - 1), run_id)
           c == h[Len(h)]
       IN IF c.op = "create_run" \/ c.ret = KeyError \/ c.args.run_id # run_id THEN before
          ELSE CASE c.op = "add_agent" ->
                      Put(before, c.ret, [status |-> "idle", error |-> None, findings |-> <<>>])
                 [] c.op = "update_agent_status" ->
                      [before EXCEPT ![c.args.agent_id].status = c.args.status,
                                     ![c.args.agent_id].error = c.args.error]
                 [] c.op = "append_finding" ->
                      [before EXCEPT ![c.args.agent_id].findings = Append(@, c.args.finding),
                                     ![c.args.agent_id].status = "running"]

\* the calls of `history` of one operation on one run that did not raise
CallsOf(op, run_id) ==
  {i \in 1..Len(history) :
     /\ history[i].op = op
     /\ history[i].ret # KeyError
     /\ history[i].args.run_id = run_id}

Occurrences(s, x) == Cardinality({j \in 1..Len(s) : s[j] = x})

\* C1: whatever the interleaving of add_agent, update_agent_status and
\* append_finding calls by the tasks, the agents of a run are exactly the
\* agents the add_agent calls returned, one per call with distinct ids; every
\* finding appended is exactly once in the findings of its agent and nowhere
\* else; and status, error and findings of every agent are those the calls
\* give when made one at a time in the order they completed (no lost update).
C1_Serializable ==
  \A run_id \in DOMAIN runs :
    LET ag == runs[run_id].agents
        adds == CallsOf("add_agent", run_id)
        appends == CallsOf("append_finding", run_id)
        seq == SeqAgents(history, run_id)
    IN /\ DOMAIN ag = {history[i].ret : i \in adds}
       /\ Cardinality(DOMAIN ag) = Cardinality(adds)
       /\ \A a \in DOMAIN ag :
            /\ ag[a].id = a
            /\ Len(ag[a].findings) =
                 Cardinality({i \in appends : history[i].args.agent_id = a})
            /\ \A i \in appends :
                 Occurrences(ag[a].findings, history[i].args.finding) =
                   (IF history[i].args.agent_id = a THEN 1 ELSE 0)
       /\ DOMAIN seq = DOMAIN ag
       /\ \A a \in DOMAIN ag :
            seq[a] = [status |-> ag[a].status, error |-> ag[a].error, findings |-> ag[a].findings]

\* Two tasks have appended a finding to the same agent, one after the other.
C1_Witness ==
  \E run_id \in DOMAIN runs :
    \E i, j \in CallsOf("append_finding", run_id) :
      /\ i < j
      /\ history[i].task # history[j].task
      /\ history[i].args.agent_id = history[j].args.agent_id

----------------------------------------------------------------------------
(* C2 *)

\* C2: the lists get_events returned for a run, in the order of the calls,
\* each extend the one before, and the log itself extends them all: what was
\* logged is never reordered, changed or removed.
C2_SnapshotsExtend ==
  \A run_id \in DOMAIN snaps :
    \A j \in 1..Len(snaps[run_id]) :
      /\ IsPrefix(snaps[run_id][j], get_events(events, run_id))
      /\ \A i \in 1..j : IsPrefix(snaps[run_id][i], snaps[run_id][j])

\* get_events returned a non-empty list, both tasks then appended to the same
\* log, and get_events was called again.
C2_Witness ==
  \E run_id \in DOMAIN snaps :
    /\ Len(snaps[run_id]) >= 2
    /\ Len(snaps[run_id][1]) >= 1
    /\ Len(snaps[run_id][2]) > Len(snaps[run_id][1])
    /\ \E i, j \in 1..Len(snaps[run_id][2]) :
         snaps[run_id][2][i].payload.task # snaps[run_id][2][j].payload.task

----------------------------------------------------------------------------
(* C3, C4, C5 *)

\* what the holder of queue qid has been delivered, in order: the events it
\* dequeued followed by those still queued
Delivered(qid) == handles[qid].got \o queues[qid].items

\* the log of the run queue qid was subscribed to
LogOf(qid) == get_events(events, handles[qid].run_id)

\* the number of events published to qid's run since the subscription that
\* were discarded from the queue
Discarded(qid) == Len(LogOf(qid)) - handles[qid].since - Len(Delivered(qid))

\* C3: a subscription queue has the capacity 200 and never holds more events
\* than that, however many events are published while its holder does not
\* dequeue; and add_event, with the publish it makes, can be taken whatever
\* the queues hold (it waits for no consumer).
C3_QueueBounded ==
  /\ \A qid \in DOMAIN queues :
       /\ queues[qid].maxsize = 200
       /\ Len(queues[qid].items) <= 200
  /\ EventCount < QueueMaxSize - 1 + MaxEvents =>
       \A t \in Tasks, run_id \in RunIdArgs :
         ENABLED EvAddEvent(t, run_id, EventType.TOOL_CALL, QueueMaxSize - 1 + MaxEvents)

\* A queue holds 200 events after publishes that found it full.
C3_Witness ==
  \E qid \in DOMAIN queues :
    /\ Len(queues[qid].items) = 200
    /\ Discarded(qid) >= 2

\* C4: (1) a publish that finds a registered queue full discards exactly its
\* head and puts the new event at the tail, and one that finds it not full
\* only puts the event at the tail; (2) so the queue of a registered
\* subscriber ends with the latest event of the run, and a subscriber that has
\* drained its queue has received it.
C4_PublishStep ==
  \A run_id \in DOMAIN events' :
    get_events(events, run_id) # events'[run_id] =>
      \A qid \in subscribers_of(subscribers, run_id) :
        LET old == queues[qid].items
            new == queues'[qid].items
        IN IF Len(old) = queues[qid].maxsize
           THEN new = Append(Tail(old), Last(events'[run_id]))
           ELSE new = Append(old, Last(events'[run_id]))

C4_LatestLast ==
  \A run_id \in DOMAIN subscribers : \A qid \in subscribers[run_id] :
    /\ handles[qid].run_id = run_id
    /\ Len(LogOf(qid)) > handles[qid].since =>
         /\ Delivered(qid) # <<>>
         /\ Last(Delivered(qid)) = Last(LogOf(qid))

C4_DropOldest == []C4_LatestLast /\ [][C4_PublishStep]_vars

\* A registered queue is full, has had an event discarded, and holds the
\* latest event of its run at the tail.
C4_Witness ==
  \E run_id \in DOMAIN subscribers : \E qid \in subscribers[run_id] :
    /\ full(queues[qid])
    /\ Discarded(qid) > 0
    /\ Last(queues[qid].items) = Last(LogOf(qid))

\* C5: what a subscriber is delivered is a subsequence of the log of its run:
\* every delivered event is in the log, and two delivered events are in the
\* order in which the log holds them.
C5_DeliveredInLogOrder ==
  \A qid \in DOMAIN queues :
    LET d == Delivered(qid)
        log == LogOf(qid)
    IN /\ \A i \in 1..Len(d) : \E k \in 1..Len(log) : log[k] = d[i]
       /\ \A i, j \in 1..Len(d) :
            i < j => \E k, l \in 1..Len(log) : k < l /\ log[k] = d[i] /\ log[l] = d[j]

\* A subscriber has dequeued two events appended by different tasks after an
\* event of its run was discarded from its full queue.
C5_Witness ==
  \E qid \in DOMAIN queues :
    /\ Len(handles[qid].got) >= 2
    /\ handles[qid].got[1].payload.task # handles[qid].got[2].payload.task
    /\ Discarded(qid) > 0

----------------------------------------------------------------------------
(* C6, C7 *)

\* the completion calls of the invocation in progress that have ended
Outcomes == IF inv.pc = "idle" THEN <<>> ELSE inv.outcomes

TimedOut(o) == o.kind = "raise" /\ IsGatewayTimeout(o.value)

\* the attempts made so far: the calls that ended and the one in flight
Attempts == Len(Outcomes) + (IF inv.pc = "waiting" THEN 1 ELSE 0)

ToolCallEvents == SelectSeq(events[Uuid(1)], LAMBDA e : e.type = EventType.TOOL_CALL)

\* C6: every attempt but the last one ended in a gateway timeout, so a
\* success after k timeouts is attempt k+1 and a non-timeout error ends the
\* invocation at the attempt it occurs in (the first one included); while the
\* budget lasts a timeout is followed by another attempt; the invocation
\* returns exactly when its last call returned, with the text of that call,
\* and an error other than a timeout is raised to the caller as it is.
C6_RetryOnlyTimeouts ==
  LET o == Outcomes
      n == Len(o)
  IN  /\ \A i \in 1..(n - 1) : TimedOut(o[i])
      /\ (n > 0 /\ o[n].kind = "return") =>
            /\ inv.pc = "returned"
            /\ inv.result = o[n].value
            /\ n - 1 <= inv.retries
      /\ inv.pc = "returned" => (n > 0 /\ o[n].kind = "return")
      /\ (n > 0 /\ o[n].kind = "raise" /\ ~TimedOut(o[n])) =>
            /\ inv.pc = "raised"
            /\ inv.exc = o[n].value
      /\ (n > 0 /\ TimedOut(o[n]) /\ n <= inv.retries) =>
            inv.pc \in {"sleeping", "attempt", "waiting"}
      /\ inv.pc \in {"returned", "raised"} => ~ENABLED NextInvoker

\* two gateway timeouts, then success at the third attempt, the budget being 2
C6_Witness ==
  /\ inv.pc = "returned"
  /\ inv.retries = 2
  /\ Len(inv.outcomes) = 3
  /\ TimedOut(inv.outcomes[1]) /\ TimedOut(inv.outcomes[2])
  /\ inv.result = "text"

\* C7: an invocation with budget r makes at most r+1 attempts (and appends at
\* most r+1 tool-call events); when attempt r+1 ends in a gateway timeout like
\* all before it, that failure is raised to the caller after the r delays
\* slept between the attempts, and nothing of the invocation follows.
C7_BoundedAttempts ==
  LET o == Outcomes
      n == Len(o)
  IN  inv.pc # "idle" =>
        /\ Attempts <= inv.retries + 1
        /\ Len(ToolCallEvents) <= inv.retries + 1
        /\ Len(inv.sleeps) <= inv.retries
        /\ (n = inv.retries + 1 /\ TimedOut(o[n])) =>
              /\ inv.pc = "raised"
              /\ inv.exc = o[n].value
              /\ Len(inv.sleeps) = inv.retries
              /\ ~ENABLED InvAttempt /\ ~ENABLED InvWake

\* the default budget of 9 used up: ten attempts, each timed out
C7_Witness ==
  /\ inv.pc = "raised"
  /\ inv.retries = DefaultRetries
  /\ Len(inv.outcomes) = DefaultRetries + 1
  /\ \A i \in 1..Len(inv.outcomes) : TimedOut(inv.outcomes[i])
  /\ Len(ToolCallEvents) = DefaultRetries + 1

----------------------------------------------------------------------------
(* C8, C9, C10 *)

\* the run of SpecPipeline
TheRun == runs[Uuid(1)]

RunCreated == Uuid(1) \in DOMAIN runs

\* the bullet tasks of a plan of PlanTexts, known from how the plan was built
NamedTasks(n) == [i \in 1..n |-> "T" \o ToString(i)]

BulletTasks(plan) ==
  IF plan = "* star\n- - T1 - \r\n- \n-x" THEN <<"T1", "">>
  ELSE NamedTasks(CHOOSE n \in 0..MaxBullets :
         plan \in {join("\n", PlanBullets(n)),
                   join("\n", <<"Plan:">> \o PlanBullets(n) \o <<"-note", " - indented">>)})

\* the ids of the worker steps registered with the run, in registration order
WorkerIds ==
  SelectSeq([k \in 1..uuidCount |-> Uuid(k)],
            LAMBDA id : /\ id \in DOMAIN TheRun.agents
                        /\ TheRun.agents[id].role = AgentRole.SUBAGENT)

\* the tasks the registered worker steps were given, in registration order
WorkerTasks ==
  LET ids == WorkerIds IN [i \in 1..Len(ids) |-> TheRun.agents[ids[i]].brief]

PlanSaved == RunCreated /\ TheRun.plan # None

Smaller(a, b) == IF a <= b THEN a ELSE b

\* the lead step has gone on to its summary call: the fan-out is over
SummaryCalled ==
  /\ RunCreated
  /\ \E i \in 1..Len(events[Uuid(1)]) :
       /\ events[Uuid(1)][i].type = EventType.TOOL_CALL
       /\ events[Uuid(1)][i].payload.system_prompt = summary_system_prompt

LeadEnded == lead.pc \in {"returned", "raised"}

\* C8 as stated: a lead step that has ended after a plan with n >= 1 bullet
\* lines has registered exactly min(3, n) worker steps, for the first three
\* bullet tasks in plan order.
C8_ExactlyMinWorkers ==
  (LeadEnded /\ PlanSaved /\ Len(BulletTasks(TheRun.plan)) >= 1) =>
     WorkerTasks = Upto(BulletTasks(TheRun.plan), 3)

\* C8, amended: never more than 3 worker steps are registered; for a plan
\* with n >= 1 bullet lines the worker steps registered are, in registration
\* order, the steps for a prefix of the first three bullet tasks in plan
\* order; all min(3, n) of them are registered once the lead step goes on to
\* its summary call; a lead step that ends with fewer has raised, and the last
\* worker step it registered did not complete.
C8_WorkersArePrefix ==
  RunCreated =>
    LET workers == WorkerTasks IN
      /\ Len(workers) <= 3
      /\ ~PlanSaved => workers = <<>>
      /\ PlanSaved =>
           LET bullets == BulletTasks(TheRun.plan)
               wanted == Upto(bullets, 3)
           IN  Len(bullets) >= 1 =>
                 /\ IsPrefix(workers, wanted)
                 /\ Len(wanted) = Smaller(3, Len(bullets))
                 /\ SummaryCalled => workers = wanted
                 /\ (LeadEnded /\ workers # wanted) =>
                      /\ lead.pc = "raised"
                      /\ Len(workers) >= 1
                      /\ TheRun.agents[Last(WorkerIds)].status # AgentStatus.COMPLETED

\* a plan with the four bullets T1..T4, the workers for T1, T2, T3 registered
\* and completed, the summary call made
C8_Witness ==
  /\ PlanSaved
  /\ BulletTasks(TheRun.plan) = <<"T1", "T2", "T3", "T4">>
  /\ WorkerTasks = <<"T1", "T2", "T3">>
  /\ \A i \in 1..3 : TheRun.agents[WorkerIds[i]].status = AgentStatus.COMPLETED
  /\ SummaryCalled

\* C9: when the saved plan has no bullet line, no worker step other than one
\* for the original query is ever registered, and a lead step that has gone on
\* to its summary call or has ended has registered exactly one, which has run
\* (its status is no longer idle).
C9_FallbackToQuery ==
  (PlanSaved /\ BulletTasks(TheRun.plan) = <<>>) =>
    LET workers == WorkerTasks IN
      /\ IsPrefix(workers, <<TheRun.query>>)
      /\ (SummaryCalled \/ LeadEnded) =>
           /\ workers = <<TheRun.query>>
           /\ TheRun.agents[WorkerIds[1]].status # AgentStatus.IDLE

\* a plan of three lines none of which begins with the bullet marker, and the
\* single worker for the query completed
C9_Witness ==
  /\ PlanSaved
  /\ TheRun.plan = "Plan:\n-note\n - indented"
  /\ WorkerTasks = <<"q">>
  /\ TheRun.agents[WorkerIds[1]].status = AgentStatus.COMPLETED
  /\ LeadEnded

\* the dicts the citation step has returned, read from its agent-completed event
CitationOutputs ==
  {e.payload.citation_response :
     e \in {x \in Range(events[Uuid(1)]) :
              /\ x.type = EventType.AGENT_COMPLETED
              /\ "citation_response" \in DOMAIN x.payload}}

\* no completion call timed out; that none raised otherwise and that every
\* search call returned follows from the citation step having returned
NoCallFailed == timeoutsLeft = MaxTimeouts

\* C10 as stated: when the background task has ended in a run where no call
\* failed and the citation step returned report "r" with no citations, the
\* run has final_report "r", citations [] and status Completed.
C10_CompletedWithReport ==
  (/\ orch.pc = "done"
   /\ NoCallFailed
   /\ CitationOutputs = {[report |-> "r", citations |-> <<>>]}) =>
     /\ TheRun.final_report = "r"
     /\ TheRun.citations = <<>>
     /\ TheRun.status = RunStatus.COMPLETED

----------------------------------------------------------------------------
(* C11 *)

\* the texts of CitationTexts that json.loads rejects
NonJsonTexts == {text \in CitationTexts : IsJSONDecodeError(json_loads(text))}

\* the completion call of the citation step has returned this text
CitationReturned(text) == cit.pc = "await_llm" /\ inv.pc = "returned" /\ inv.result = text

\* the background task of the run has ended
TaskEnded == orch.pc = "done"

\* the step of the citation agent that parses a text json.loads rejects
\* makes of it the report, with no citation
C11_ParseStep ==
  \A text \in NonJsonTexts :
    (CitationReturned(text) /\ cit'.pc = "emit_citations") =>
       cit'.citation_data = [report |-> text, citations |-> <<>>]

\* the texts json.loads rejects that are the report of no JSON document: a
\* citation output with such a report was made of the raw text
RawOnlyTexts ==
  {text \in NonJsonTexts : \A doc \in Range(JsonDocuments) : get(doc, "report", "") # text}

\* a run whose citation step made its report of the raw text, and whose
\* background task has ended, has that text as its final_report, no
\* citations, and the status Completed
C11_RawReportCompleted ==
  \A text \in RawOnlyTexts :
    (TaskEnded /\ \E out \in CitationOutputs : out.report = text) =>
       /\ TheRun.final_report = text
       /\ TheRun.citations = <<>>
       /\ TheRun.status = RunStatus.COMPLETED

\* C11 as stated: when the completion output of the citation step is not
\* JSON, whatever the sources of the workers, the citation step makes the raw
\* text the report with no citations, and the run whose background task has
\* ended has that text as its final_report, no citations, and the status
\* Completed.
C11_MalformedCitationCompletes == []C11_RawReportCompleted /\ [][C11_ParseStep]_vars

----------------------------------------------------------------------------
(* C12 *)

\* the event log of the run
RunLog == events[Uuid(1)]

\* the lead step has ended by raising before the report was saved: the
\* exception came from the planning call, a worker step, the summary call or
\* the citation step
LeadRaisedEarly == lead.pc = "raised" /\ TheRun.final_report = None

----------------------------------------------------------------------------
(* C13 *)

\* save_final_report has stored a non-empty report for the run
ReportPersisted == RunCreated /\ Truthy(TheRun.final_report)

\* C13 as stated: once a non-empty final report is persisted, whatever the
\* evaluation step does, the run is never marked Failed, and when its
\* background task has ended the run is Completed.
C13_EvaluationNeverFailsRun ==
  ReportPersisted =>
    /\ TheRun.status # RunStatus.FAILED
    /\ TaskEnded => TheRun.status = RunStatus.COMPLETED

----------------------------------------------------------------------------
(* C14 *)

\* the moves of a run's status the lifecycle allows
StatusMoves == {<<RunStatus.CREATED, RunStatus.RUNNING>>,
                <<RunStatus.RUNNING, RunStatus.COMPLETED>>,
                <<RunStatus.RUNNING, RunStatus.FAILED>>}

C14_StatusStep ==
  /\ \A id \in DOMAIN runs :
       /\ id \in DOMAIN runs'
       /\ \/ runs'[id].status = runs[id].status
          \/ <<runs[id].status, runs'[id].status>> \in StatusMoves
  /\ \A id \in DOMAIN runs' \ DOMAIN runs : runs'[id].status = RunStatus.CREATED

\* C14: in every step of the pipeline (create_run, the lead step, the guard of
\* the background task) a run keeps its status or moves Created -> Running,
\* Running -> Completed or Running -> Failed; a new run starts Created.  So
\* the status never moves backward and a Completed or Failed run keeps its
\* status.
C14_StatusMonotone == [][C14_StatusStep]_vars

\* the guard of the background task has written Failed over the Failed the
\* lead step had written, after the run had been Running
C14_Witness ==
  /\ TaskEnded
  /\ TheRun.status = RunStatus.FAILED
  /\ Cardinality({i \in 1..Len(RunLog) : RunLog[i].type = EventType.RUN_FAILED}) = 2
  /\ \E i \in 1..Len(RunLog) : RunLog[i].type = EventType.RUN_STARTED

----------------------------------------------------------------------------
(* C15 *)

\* a step that changes the report or the citations of a run is the
\* save_final_report call of the lead step, made while neither is set, and
\* it stores the report and the citations the lead step passes, together
C15_SaveStep ==
  \A id \in DOMAIN runs :
    (runs'[id].final_report # runs[id].final_report
       \/ runs'[id].citations # runs[id].citations) =>
      /\ runs[id].final_report = None
      /\ runs[id].citations = <<>>
      /\ lead.pc = "save_report"
      /\ lead.run_id = id
      /\ runs'[id].final_report = lead.final_report
      /\ runs'[id].citations = lead.formatted_citations

\* no state shows the citations of a run without its report
C15_NeverCitationsAlone ==
  \A id \in DOMAIN runs : runs[id].final_report = None => runs[id].citations = <<>>

\* C15: final_report and citations of a run are written in one step, the
\* critical section of save_final_report, so that no state of the store
\* shows one without the other, and the pipeline writes them at most once.
C15_ReportAndCitationsTogether == []C15_NeverCitationsAlone /\ [][C15_SaveStep]_vars

\* a report with two citations is stored
C15_Witness ==
  /\ RunCreated
  /\ TheRun.final_report = "r [1]"
  /\ Len(TheRun.citations) = 2

----------------------------------------------------------------------------
(* SpecPipelineLive: the pipeline under fair scheduling.  The completion    *)
(* call may time out at every attempt of an invocation, so that only the    *)
(* bound of the retry loop ends an invocation that keeps timing out; every  *)
(* call in progress eventually returns or raises, and the event loop runs   *)
(* every task that is ready.                                                *)

\* a plan with two bullet lines: two workers, one after the other
LivePlanTexts == {join("\n", PlanBullets(2))}

LiveSearchResults == {<<>>}

\* a non-empty report, and an empty one
LiveCitationTexts == {"r", "{\"report\": \"\", \"citations\": []}"}

LiveErrors == {HTTPException(504, "LLM request failed", "504: LLM request failed"),
               HTTPException(502, "LLM upstream error", "502: LLM upstream error")}

LiveCompletions ==
  IF inv.pc = "idle" THEN {}
  ELSE CASE inv.caller = "plan" -> LivePlanTexts
         [] inv.caller = "research" -> {"f"}
         [] inv.caller = "summary" -> {"s"}
         [] inv.caller = "citation" -> LiveCitationTexts
         [] OTHER -> {}

InitPipelineLive ==
  /\ runs = <<>>
  /\ events = <<>>
  /\ subscribers = <<>>
  /\ queues = <<>>
  /\ clock = 0
  /\ uuidCount = 0
  /\ history = <<>>
  /\ snaps = <<>>
  /\ frames = <<>>
  /\ handles = <<>>
  /\ inv = Idle
  /\ timeoutsLeft = DefaultRetries + 1
  /\ orch = Idle
  /\ lead = Idle
  /\ sub = Idle
  /\ cit = Idle

NextPipelineLive ==
  \/ \E query \in Queries, goal \in Goals : ApiCreateRun(query, goal)
  \/ OrchStart \/ OrchReturn \/ OrchExceptStatus \/ OrchExceptEvent
  \/ LeadRegister \/ LeadSpawned \/ LeadMarkRunning \/ LeadRunRunning \/ LeadEmitStarted
  \/ LeadPlan \/ LeadPlanReturned \/ LeadSavePlan \/ LeadEmitPlan \/ LeadTasks
  \/ LeadRunSubagent \/ LeadSubagentReturned \/ LeadSummary \/ LeadSummaryReturned
  \/ LeadCitation \/ LeadCitationReturned \/ LeadSaveReport \/ LeadEvaluate
  \/ LeadEmitCompleted \/ LeadRunCompleted \/ LeadMarkCompleted
  \/ LeadCatch \/ LeadExceptStatus \/ LeadExceptMark \/ LeadExceptEmit
  \/ SubRegister \/ SubSpawned \/ SubMarkRunning \/ SubSearch
  \/ \E results \in LiveSearchResults : SubSearchReturned(results)
  \/ \E exc \in SearchErrors : SubSearchRaised(exc)
  \/ SubPrompt \/ SubLlmEnded \/ SubRecordAppend \/ SubRecordEmit
  \/ SubEmitCompleted \/ SubMarkCompleted
  \/ CitRegister \/ CitSpawned \/ CitMarkRunning \/ CitPrompt \/ CitLlmEnded
  \/ CitEmitCitations \/ CitEmitCompleted \/ CitMarkCompleted
  \/ InvAttempt \/ InvWake
  \/ \E text \in LiveCompletions : InvReturn(text)
  \/ \E exc \in LiveErrors : InvRaise(exc)

SpecPipelineLive ==
  InitPipelineLive /\ [][NextPipelineLive]_vars /\ WF_vars(NextPipelineLive)

----------------------------------------------------------------------------
(* C16 *)

\* POST /api/runs has created the run and scheduled its background task
OrchestrationStarted == orch.pc # "idle"

RunEnded == RunCreated /\ TheRun.status \in {RunStatus.COMPLETED, RunStatus.FAILED}

\* C16: when every call in progress eventually returns or raises and every
\* ready task is run, a run whose background task has been scheduled
\* eventually has the status Completed or Failed.
C16_RunsEnd == OrchestrationStarted ~> RunEnded

\* the planning call timed out at each of its ten attempts, and the run is
\* Failed
C16_Witness ==
  /\ RunEnded
  /\ TheRun.status = RunStatus.FAILED
  /\ Cardinality({i \in 1..Len(RunLog) : RunLog[i].type = EventType.TOOL_CALL})
       = DefaultRetries + 1
  /\ TheRun.plan = None

----------------------------------------------------------------------------
(* C17 *)

\* a step that appends the event e to the log of run_id publishes it: every
\* queue registered for run_id at that moment, which is a queue subscribed to
\* run_id, then holds e exactly once, every other queue is as it was, and the
\* registry is as it was
C17_PublishStep ==
  \A run_id \in DOMAIN events' :
    get_events(events, run_id) # events'[run_id] =>
      LET e == Last(events'[run_id]) IN
        /\ subscribers' = subscribers
        /\ DOMAIN queues' = DOMAIN queues
        /\ \A qid \in DOMAIN queues :
             IF qid \in subscribers_of(subscribers, run_id)
             THEN /\ handles[qid].run_id = run_id
                  /\ Occurrences(queues'[qid].items, e) = 1
                  /\ Occurrences(queues[qid].items, e) = 0
             ELSE queues'[qid] = queues[qid]

\* add_event with its publish can be taken for every run id, subscribed to
\* or not
C17_PublishNeverFails ==
  EventCount < MaxEvents =>
    \A t \in Tasks, run_id \in RunIdArgs :
      ENABLED EvAddEvent(t, run_id, EventType.TOOL_CALL, MaxEvents)

\* C17: publish puts the event exactly once on exactly the queues registered
\* for the event's run at the time of the publish; queues of other runs and
\* unsubscribed queues are untouched; for a run without subscribers nothing
\* changes and the call does not fail.
C17_ExactlyTheRegistered == []C17_PublishNeverFails /\ [][C17_PublishStep]_vars

\* a queue still registered for the run holds the latest event of the run,
\* and a queue of the same run that was unsubscribed before does not
C17_Witness ==
  \E q1, q2 \in DOMAIN queues :
    /\ q1 \in subscribers_of(subscribers, Uuid(1))
    /\ q2 \notin subscribers_of(subscribers, Uuid(1))
    /\ handles[q2].run_id = Uuid(1)
    /\ Len(LogOf(q1)) > handles[q2].since
    /\ queues[q1].items # <<>>
    /\ Last(queues[q1].items) = Last(LogOf(q1))
    /\ \A i \in 1..Len(Delivered(q2)) : Delivered(q2)[i] # Last(LogOf(q1))

----------------------------------------------------------------------------
(* C18 *)

\* C18: after any sequence of subscribe, unsubscribe and publish calls, the
\* registry of the bus has no run id with an empty set of queues: the
\* unsubscribe of the last queue of a run removes the entry of the run, and a
\* publish for a run without entry creates none.
C18_NoEmptyEntry ==
  \A run_id \in DOMAIN subscribers : subscribers[run_id] # {}

\* the only queue of the run was unsubscribed, an event of the run was
\* published after that, and the registry has no entry for the run
C18_Witness ==
  \E qid \in DOMAIN queues :
    /\ handles[qid].run_id = Uuid(1)
    /\ Uuid(1) \notin DOMAIN subscribers
    /\ Delivered(qid) = <<>>
    /\ Len(LogOf(qid)) > handles[qid].since

----------------------------------------------------------------------------
(* SpecStoreApi: every operation of the Run Store called by a task with the *)
(* id of the run, of one of its agents, or with an id the store does not    *)
(* know.  `history` records each call with Returned(value) or               *)
(* Raised(KeyError); the three agent operations of SpecStore record the     *)
(* value or KeyError itself.                                                *)

StoreUpdateRunStatus(t, run_id, status) ==
  /\ Len(history) < MaxCalls
  /\ LET args == [run_id |-> run_id, status |-> status]
     IN IF KnownRun(runs, run_id)
        THEN /\ runs' = update_run_status(runs, run_id, status, clock)
             /\ clock' = clock + 1
             /\ history' = Append(history, Call(t, "update_run_status", args, Returned(None)))
        ELSE /\ history' = Append(history, Call(t, "update_run_status", args, Raised(KeyError)))
             /\ UNCHANGED <<runs, clock>>
  /\ UNCHANGED <<events, uuidCount, busVars, snaps, handles, stepVars>>

StoreSavePlan(t, run_id, plan) ==
  /\ Len(history) < MaxCalls
  /\ LET args == [run_id |-> run_id, plan |-> plan]
     IN IF KnownRun(runs, run_id)
        THEN /\ runs' = save_plan(runs, run_id, plan, clock)
             /\ clock' = clock + 1
             /\ history' = Append(history, Call(t, "save_plan", args, Returned(None)))
        ELSE /\ history' = Append(history, Call(t, "save_plan", args, Raised(KeyError)))
             /\ UNCHANGED <<runs, clock>>
  /\ UNCHANGED <<events, uuidCount, busVars, snaps, handles, stepVars>>

StoreSaveFinalReport(t, run_id, report, citations) ==
  /\ Len(history) < MaxCalls
  /\ LET args == [run_id |-> run_id, report |-> report, citations |-> citations]
     IN IF KnownRun(runs, run_id)
        THEN /\ runs' = save_final_report(runs, run_id, report, citations, clock)
             /\ clock' = clock + 1
             /\ history' = Append(history, Call(t, "save_final_report", args, Returned(None)))
        ELSE /\ history' = Append(history, Call(t, "save_final_report", args, Raised(KeyError)))
             /\ UNCHANGED <<runs, clock>>
  /\ UNCHANGED <<events, uuidCount, busVars, snaps, handles, stepVars>>

StoreSaveEvaluation(t, run_id, evaluation) ==
  /\ Len(history) < MaxCalls
  /\ LET args == [run_id |-> run_id, evaluation |-> evaluation]
     IN IF KnownRun(runs, run_id)
        THEN /\ runs' = save_evaluation(runs, run_id, evaluation, clock)
             /\ clock' = clock + 1
             /\ history' = Append(history, Call(t, "save_evaluation", args, Returned(None)))
        ELSE /\ history' = Append(history, Call(t, "save_evaluation", args, Raised(KeyError)))
             /\ UNCHANGED <<runs, clock>>
  /\ UNCHANGED <<events, uuidCount, busVars, snaps, handles, stepVars>>

\* get_events: self._events.get(run_id, []) has a value for every run id
StoreGetEvents(t, run_id) ==
  /\ Len(history) < MaxCalls
  /\ history' = Append(history, Call(t, "get_events", [run_id |-> run_id],
                                     Returned(get_events(events, run_id))))
  /\ UNCHANGED <<storeVars, busVars, snaps, handles, stepVars>>

\* get_run: self._runs.get(run_id) is None for a run id without run
StoreGetRun(t, run_id) ==
  /\ Len(history) < MaxCalls
  /\ history' = Append(history, Call(t, "get_run", [run_id |-> run_id],
                                     Returned(get_run(runs, run_id))))
  /\ UNCHANGED <<storeVars, busVars, snaps, handles, stepVars>>

\* add_event: the log of the run id is created when it is missing
StoreAddEvent(t, run_id, type) ==
  /\ Len(history) < MaxCalls
  /\ LET event == RunEvent(run_id, type, clock + 1, [task |-> t], None) IN
       /\ events' = add_event_log(events, event)
       /\ queues' = publish(subscribers, queues, event)
  /\ clock' = clock + 1
  /\ history' = Append(history, Call(t, "add_event", [run_id |-> run_id], Returned(None)))
  /\ UNCHANGED <<runs, uuidCount, subscribers, snaps, handles, stepVars>>

\* The store after one create_run("q"), and the bus after one
\* subscribe(UnknownId): a queue waits for the events of a run id the store
\* has no run for
InitObserved ==
  /\ runs = create_run(<<>>, Uuid(1), "q", None, 0)
  /\ events = Put(<<>>, Uuid(1), <<>>)
  /\ subscribers = subscribe(<<>>, UnknownId, 1)
  /\ queues = Put(<<>>, 1, Queue(SmallQueueSize))
  /\ clock = 2
  /\ uuidCount = 1
  /\ history = <<>>
  /\ snaps = <<>>
  /\ frames = <<>>
  /\ handles = Put(<<>>, 1, [run_id |-> UnknownId, since |-> 0, got |-> <<>>])
  /\ NoSteps

NextStoreApi ==
  \/ \E run_id \in RunIdArgs : StoreAddAgent("t1", run_id, AgentRole.SUBAGENT)
  \/ \E run_id \in RunIdArgs : \E agent_id \in AgentIdArgs(run_id) :
       \E se \in StatusArgs(run_id, agent_id) :
         StoreUpdateAgentStatus("t1", run_id, agent_id, se[1], se[2])
  \/ \E run_id \in RunIdArgs : \E agent_id \in AgentIdArgs(run_id) :
       StoreAppendFinding("t1", run_id, agent_id)
  \/ \E run_id \in RunIdArgs : StoreUpdateRunStatus("t1", run_id, RunStatus.RUNNING)
  \/ \E run_id \in RunIdArgs : StoreSavePlan("t1", run_id, "p")
  \/ \E run_id \in RunIdArgs : StoreSaveFinalReport("t1", run_id, "r", <<>>)
  \/ \E run_id \in RunIdArgs :
       StoreSaveEvaluation("t1", run_id, EvaluationResult(<<>>, 1, TRUE, None, None))
  \/ \E run_id \in RunIdArgs : StoreGetEvents("t1", run_id)
  \/ \E run_id \in RunIdArgs : StoreGetRun("t1", run_id)
  \/ \E run_id \in RunIdArgs : StoreAddEvent("t1", run_id, EventType.TOOL_CALL)

SpecStoreApi == InitObserved /\ [][NextStoreApi]_vars

----------------------------------------------------------------------------
(* C19 *)

\* the operations the claim says fail for an id the store does not know
FailingOps == {"add_agent", "update_agent_status", "append_finding", "update_run_status",
               "save_plan", "save_final_report", "save_evaluation", "get_events"}

\* the call was made with a run id or an agent id the store never issued
UnknownIdCall(c) ==
  \/ c.args.run_id = UnknownId
  \/ "agent_id" \in DOMAIN c.args /\ c.args.agent_id = UnknownId

\* the call ended with KeyError
CallRaised(c) ==
  IF c.op \in {"add_agent", "update_agent_status", "append_finding"}
  THEN c.ret = KeyError
  ELSE c.ret.kind = "raise"

\* every call of these operations with an unknown id has raised
C19_UnknownCallsRaised ==
  \A i \in 1..Len(history) :
    (history[i].op \in FailingOps /\ UnknownIdCall(history[i])) => CallRaised(history[i])

\* a call of these operations with an unknown id leaves runs and logs as they were
C19_UnknownCallStep ==
  (/\ Len(history') = Len(history) + 1
   /\ Last(history').op \in FailingOps
   /\ UnknownIdCall(Last(history'))) => (runs' = runs /\ events' = events)

\* C19 as stated: add_agent, update_agent_status, append_finding,
\* update_run_status, save_plan, save_final_report, save_evaluation and
\* get_events, called with a run id or agent id the store does not know, end
\* with an error and leave the store unchanged.
C19_UnknownIdsFail == []C19_UnknownCallsRaised /\ [][C19_UnknownCallStep]_vars

----------------------------------------------------------------------------
(* SpecWs: observers of the run on the websocket route (run_events_ws),    *)
(* while the tasks go on appending events.  An observer's frame is kept in  *)
(* handles: its position, the history it fetched and the messages it sent.  *)

\* format_beijing of a datetime: the instant, written with the offset of
\* Asia/Shanghai (the timestamp of a RunEvent is never None: its default is
\* the time of construction)
format_beijing(timestamp) == [instant |-> timestamp, utcoffset |-> "+08:00"]

\* the payload run_events_ws sends for a live event: the citations of a
\* citations_generated event are reduced to their citation and url
ws_payload(event) ==
  IF event.type = EventType.CITATIONS_GENERATED /\ "citations" \in DOMAIN event.payload
    THEN Put(event.payload, "citations",
             [i \in DOMAIN event.payload["citations"] |->
                [citation |-> event.payload["citations"][i].citation,
                 url |-> event.payload["citations"][i].url]])
    ELSE event.payload

\* the message run_events_ws sends for an event of the history
ws_replay_message(event) ==
  [type |-> event.type, timestamp |-> format_beijing(event.timestamp),
   payload |-> event.payload, agent_id |-> event.agent_id]

\* the message run_events_ws sends for an event taken from its queue
ws_live_message(event) ==
  [type |-> event.type, timestamp |-> format_beijing(event.timestamp),
   payload |-> ws_payload(event), agent_id |-> event.agent_id]

\* the frames of run_events_ws
WsFrames == {qid \in DOMAIN handles : "pc" \in DOMAIN handles[qid]}

\* run_events_ws up to `queue = await event_bus.subscribe(run_id)`: the run is
\* known (an unknown run is closed with 4404), the socket is accepted and the
\* queue is registered
WsSubscribe(run_id, maxsize) ==
  /\ run_id \in DOMAIN runs
  /\ DOMAIN queues # QueueIds
  /\ LET qid == Cardinality(DOMAIN queues) + 1 IN
       /\ queues' = Put(queues, qid, Queue(maxsize))
       /\ subscribers' = subscribe(subscribers, run_id, qid)
       /\ handles' = Put(handles, qid, [run_id |-> run_id,
                                        since |-> Len(get_events(events, run_id)),
                                        got |-> <<>>,
                                        pc |-> "send_state",
                                        history |-> <<>>,
                                        sent |-> <<>>,
                                        connected |-> TRUE])
  /\ UNCHANGED <<storeVars, history, snaps, stepVars>>

\* `await websocket.send_json({"type": "run_state", ...})`
WsSendState(qid) ==
  /\ qid \in WsFrames
  /\ handles[qid].pc = "send_state"
  /\ handles[qid].connected
  /\ handles' = [handles EXCEPT
       ![qid].sent = Append(@, [type |-> "run_state",
                                status |-> get_run(runs, handles[qid].run_id).status]),
       ![qid].pc = "get_history"]
  /\ UNCHANGED <<storeVars, busVars, history, snaps, stepVars>>

\* Faulty variant of WsGetHistory: the frame replays nothing
WsGetHistoryNoReplay(qid) ==
  /\ qid \in WsFrames
  /\ handles[qid].pc = "get_history"
  /\ handles' = [handles EXCEPT ![qid].history = <<>>, ![qid].pc = "replay"]
  /\ UNCHANGED <<storeVars, busVars, history, snaps, stepVars>>

\* `history = await run_store.get_events(run_id)`
WsGetHistory(qid) ==
  /\ qid \in WsFrames
  /\ handles[qid].pc = "get_history"
  /\ handles' = [handles EXCEPT ![qid].history = get_events(events, handles[qid].run_id),
                                ![qid].pc = "replay"]
  /\ UNCHANGED <<storeVars, busVars, history, snaps, stepVars>>

\* the number of events of its history a frame has sent
Replayed(qid) == Len(handles[qid].sent) - 1 - Len(handles[qid].got)

\* one turn of `for event in history: await websocket.send_json(...)`
WsReplay(qid) ==
  /\ qid \in WsFrames
  /\ handles[qid].pc = "replay"
  /\ handles[qid].connected
  /\ Replayed(qid) < Len(handles[qid].history)
  /\ handles' = [handles EXCEPT
       ![qid].sent = Append(@, ws_replay_message(handles[qid].history[Replayed(qid) + 1]))]
  /\ UNCHANGED <<storeVars, busVars, history, snaps, stepVars>>

\* one turn of `while True: event = await queue.get()` and the send_json of
\* the event, once the history is replayed
WsReceive(qid) ==
  /\ qid \in WsFrames
  /\ handles[qid].pc = "replay"
  /\ handles[qid].connected
  /\ Replayed(qid) = Len(handles[qid].history)
  /\ queues[qid].items # <<>>
  /\ handles' = [handles EXCEPT
       ![qid].got = Append(@, Head(queues[qid].items)),
       ![qid].sent = Append(@, ws_live_message(Head(queues[qid].items)))]
  /\ queues' = [queues EXCEPT ![qid] = get_nowait(@)]
  /\ UNCHANGED <<storeVars, subscribers, history, snaps, stepVars>>

\* the observer closes its end of the socket; the handler is told by the
\* next send_json it makes
WsClientClose(qid) ==
  /\ qid \in WsFrames
  /\ handles[qid].pc # "closed"
  /\ handles[qid].connected
  /\ handles' = [handles EXCEPT ![qid].connected = FALSE]
  /\ UNCHANGED <<storeVars, busVars, history, snaps, stepVars>>

\* the frame waits in `await queue.get()`: its history is replayed and its
\* queue is empty
WsWaiting(qid) ==
  /\ handles[qid].pc = "replay"
  /\ Replayed(qid) = Len(handles[qid].history)
  /\ queues[qid].items = <<>>

\* the frame is at a send_json: of the run state, of an event of the
\* history, or of the event it takes from its queue
WsSending(qid) ==
  \/ handles[qid].pc = "send_state"
  \/ handles[qid].pc = "replay" /\ ~WsWaiting(qid)

\* a frame that has returned: its locals, the queue among them, are gone
WsClosed(run_id) ==
  [run_id |-> run_id, since |-> 0, got |-> <<>>, pc |-> "closed", history |-> <<>>,
   sent |-> <<>>, connected |-> FALSE]

\* WebSocketDisconnect raised by a send_json to an observer that has closed
\* the socket, and the finally clause: `await event_bus.unsubscribe(run_id,
\* queue)`
WsDisconnect(qid) ==
  /\ qid \in WsFrames
  /\ ~handles[qid].connected
  /\ WsSending(qid)
  /\ subscribers' = unsubscribe(subscribers, handles[qid].run_id, qid)
  /\ handles' = [handles EXCEPT ![qid] = WsClosed(handles[qid].run_id)]
  /\ queues' = [queues EXCEPT ![qid].items = <<>>]
  /\ UNCHANGED <<storeVars, history, snaps, stepVars>>

NextWs ==
  \/ \E type \in {EventType.TOOL_CALL, EventType.CITATIONS_GENERATED} :
       EvAddEvent("t1", Uuid(1), type, MaxEvents)
  \/ WsSubscribe(Uuid(1), SmallQueueSize)
  \/ \E qid \in QueueIds : WsSendState(qid)
  \/ \E qid \in QueueIds : WsGetHistory(qid)
  \/ \E qid \in QueueIds : WsReplay(qid)
  \/ \E qid \in QueueIds : WsReceive(qid)
  \/ \E qid \in QueueIds : WsClientClose(qid)
  \/ \E qid \in QueueIds : WsDisconnect(qid)

SpecWs == InitOneRun /\ [][NextWs]_vars

----------------------------------------------------------------------------
(* C20 *)

\* the messages a frame has sent
WsSent(qid) == Range(handles[qid].sent)

\* the messages that carry an event: the one of the replay, the one of the
\* live stream
WsMessages(event) == {ws_replay_message(event), ws_live_message(event)}

\* the messages a frame still holds: those of its history not yet replayed,
\* those waiting in its queue
WsPending(qid) ==
  {ws_replay_message(handles[qid].history[i]) :
     i \in (Replayed(qid) + 1)..Len(handles[qid].history)}
  \cup {ws_live_message(queues[qid].items[i]) : i \in DOMAIN queues[qid].items}

\* the frame has replayed its history and emptied its queue
WsDrained(qid) ==
  /\ handles[qid].pc = "replay"
  /\ Replayed(qid) = Len(handles[qid].history)
  /\ queues[qid].items = <<>>

\* C20: an observer that subscribed to the run at any moment, and whose queue
\* discarded nothing, has been sent or still holds (in the history it is
\* replaying or in its queue) every event of the run's log from the moment it
\* fetched the history; once it has replayed the history and emptied the queue
\* it has been sent every event of the log at least once.
C20_NoGap ==
  \A qid \in WsFrames :
    (handles[qid].pc = "replay" /\ Discarded(qid) = 0) =>
      \A k \in DOMAIN LogOf(qid) :
        /\ WsMessages(LogOf(qid)[k]) \cap (WsSent(qid) \cup WsPending(qid)) # {}
        /\ WsDrained(qid) => WsMessages(LogOf(qid)[k]) \cap WsSent(qid) # {}

\* an observer subscribed after the first event; the second event was appended
\* between its subscription and its reading of the history, the third one
\* later: it has been sent the three events, the second one twice
C20_Witness ==
  \E qid \in WsFrames :
    /\ WsDrained(qid)
    /\ Discarded(qid) = 0
    /\ Len(LogOf(qid)) = MaxEvents
    /\ handles[qid].since = 1
    /\ Len(handles[qid].history) = 2
    /\ Len(handles[qid].got) = 2
    /\ \A k \in DOMAIN LogOf(qid) : WsMessages(LogOf(qid)[k]) \cap WsSent(qid) # {}

----------------------------------------------------------------------------
(* SpecLocks: the store and bus calls statement by statement, with the two  *)
(* asyncio locks.  A task is suspended at an `async with` whose lock is     *)
(* held; here a task may also be preempted between any two statements,      *)
(* which includes every interleaving the event loop can produce.            *)

IdleFrame == [pc |-> "idle", holds |-> {}]

Frame(t) == IF t \in DOMAIN frames THEN frames[t] ELSE IdleFrame

\* the tasks holding RunStore._lock, EventBus._lock
Holders(lock) == {t \in DOMAIN frames : lock \in frames[t].holds}

\* the task calls RunStore.add_event with a new event
LkCallAddEvent(t, run_id) ==
  /\ Frame(t).pc = "idle"
  /\ EventCount < MaxLockEvents
  /\ frames' = Put(frames, t, [pc |-> "store_lock", op |-> "add_event", holds |-> {},
                               event |-> RunEvent(run_id, EventType.TOOL_CALL, clock + 1,
                                                  [task |-> t], None)])
  /\ clock' = clock + 1
  /\ UNCHANGED <<runs, events, uuidCount, busVars, history, snaps, handles,
                 inv, timeoutsLeft, agentVars>>

\* the task calls RunStore.get_events
LkCallGetEvents(t, run_id) ==
  /\ Frame(t).pc = "idle"
  /\ frames' = Put(frames, t, [pc |-> "store_lock", op |-> "get_events", holds |-> {},
                               run_id |-> run_id])
  /\ UNCHANGED <<storeVars, busVars, history, snaps, handles, inv, timeoutsLeft, agentVars>>

\* the task calls EventBus.subscribe: the queue is made before the lock is
\* asked for.  One subscription is made in a behaviour.
LkCallSubscribe(t, run_id) ==
  /\ Frame(t).pc = "idle"
  /\ queues = <<>>
  /\ LET qid == Cardinality(DOMAIN queues) + 1 IN
       /\ queues' = Put(queues, qid, Queue(SmallQueueSize))
       /\ frames' = Put(frames, t, [pc |-> "bus_lock", op |-> "subscribe", holds |-> {},
                                    run_id |-> run_id, queue |-> qid])
  /\ UNCHANGED <<storeVars, subscribers, history, snaps, handles, inv, timeoutsLeft, agentVars>>

\* the task calls EventBus.unsubscribe
LkCallUnsubscribe(t, run_id, qid) ==
  /\ Frame(t).pc = "idle"
  /\ qid \in subscribers_of(subscribers, run_id)
  /\ frames' = Put(frames, t, [pc |-> "bus_lock", op |-> "unsubscribe", holds |-> {},
                               run_id |-> run_id, queue |-> qid])
  /\ UNCHANGED <<storeVars, busVars, history, snaps, handles, inv, timeoutsLeft, agentVars>>

\* `async with self._lock:` of the store, entered when the lock is free
LkStoreAcquire(t) ==
  /\ Frame(t).pc = "store_lock"
  /\ Holders("store") = {}
  /\ frames' = [frames EXCEPT ![t].pc = "store_body", ![t].holds = @ \cup {"store"}]
  /\ UNCHANGED <<storeVars, busVars, history, snaps, handles, inv, timeoutsLeft, agentVars>>

\* Faulty variant of LkAddEventBody: the event is published inside the
\* `async with` of the store
LkAddEventBodyKeepsLock(t) ==
  /\ Frame(t).pc = "store_body"
  /\ Frame(t).op = "add_event"
  /\ events' = add_event_log(events, Frame(t).event)
  /\ frames' = [frames EXCEPT ![t].pc = "bus_lock"]
  /\ UNCHANGED <<runs, clock, uuidCount, busVars, history, snaps, handles,
                 inv, timeoutsLeft, agentVars>>

\* add_event, the body of its `async with` and the exit: the event is
\* appended and the lock released; `await event_bus.publish(event)` is next
LkAddEventBody(t) ==
  /\ Frame(t).pc = "store_body"
  /\ Frame(t).op = "add_event"
  /\ events' = add_event_log(events, Frame(t).event)
  /\ frames' = [frames EXCEPT ![t].pc = "bus_lock", ![t].holds = @ \ {"store"}]
  /\ UNCHANGED <<runs, clock, uuidCount, busVars, history, snaps, handles,
                 inv, timeoutsLeft, agentVars>>

\* get_events, the body of its `async with` and the return (the caller
\* drops the copy it is given)
LkGetEventsBody(t) ==
  /\ Frame(t).pc = "store_body"
  /\ Frame(t).op = "get_events"
  /\ frames' = [frames EXCEPT ![t] = IdleFrame]
  /\ UNCHANGED <<storeVars, busVars, history, snaps, handles, inv, timeoutsLeft, agentVars>>

\* `async with self._lock:` of the bus, entered when the lock is free
LkBusAcquire(t) ==
  /\ Frame(t).pc = "bus_lock"
  /\ Holders("bus") = {}
  /\ frames' = [frames EXCEPT ![t].pc = "bus_body", ![t].holds = @ \cup {"bus"}]
  /\ UNCHANGED <<storeVars, busVars, history, snaps, handles, inv, timeoutsLeft, agentVars>>

\* publish, the body of its `async with` and the exit: the subscribers of
\* the run are copied and the lock released; without subscribers the loop
\* has no turn and add_event returns
LkPublishBody(t) ==
  /\ Frame(t).pc = "bus_body"
  /\ Frame(t).op = "add_event"
  /\ LET copy == subscribers_of(subscribers, Frame(t).event.run_id) IN
       frames' = IF copy = {} THEN [frames EXCEPT ![t] = IdleFrame]
                 ELSE [frames EXCEPT ![t] = [pc |-> "deliver", op |-> "add_event",
                                             holds |-> Frame(t).holds \ {"bus"},
                                             event |-> Frame(t).event,
                                             subscribers |-> copy]]
  /\ UNCHANGED <<storeVars, busVars, history, snaps, handles, inv, timeoutsLeft, agentVars>>

\* one turn of publish's loop, for a queue of the copy (a list made of a set
\* has any order); after the last turn add_event returns
LkDeliver(t, qid) ==
  /\ Frame(t).pc = "deliver"
  /\ qid \in Frame(t).subscribers
  /\ queues' = [queues EXCEPT ![qid] = deliver(@, Frame(t).event)]
  /\ frames' = IF Frame(t).subscribers = {qid}
               THEN [frames EXCEPT ![t] = [pc |-> "idle", holds |-> Frame(t).holds]]
               ELSE [frames EXCEPT ![t].subscribers = @ \ {qid}]
  /\ UNCHANGED <<storeVars, subscribers, history, snaps, handles, inv, timeoutsLeft, agentVars>>

\* subscribe, the body of its `async with` and the return
LkSubscribeBody(t) ==
  /\ Frame(t).pc = "bus_body"
  /\ Frame(t).op = "subscribe"
  /\ subscribers' = subscribe(subscribers, Frame(t).run_id, Frame(t).queue)
  /\ frames' = [frames EXCEPT ![t] = IdleFrame]
  /\ UNCHANGED <<storeVars, queues, history, snaps, handles, inv, timeoutsLeft, agentVars>>

\* unsubscribe, the body of its `async with` and the return
LkUnsubscribeBody(t) ==
  /\ Frame(t).pc = "bus_body"
  /\ Frame(t).op = "unsubscribe"
  /\ subscribers' = unsubscribe(subscribers, Frame(t).run_id, Frame(t).queue)
  /\ frames' = [frames EXCEPT ![t] = IdleFrame]
  /\ UNCHANGED <<storeVars, queues, history, snaps, handles, inv, timeoutsLeft, agentVars>>

\* a step of a call in progress
LkStep(t) ==
  \/ LkStoreAcquire(t)
  \/ LkAddEventBody(t)
  \/ LkGetEventsBody(t)
  \/ LkBusAcquire(t)
  \/ LkPublishBody(t)
  \/ \E qid \in QueueIds : LkDeliver(t, qid)
  \/ LkSubscribeBody(t)
  \/ LkUnsubscribeBody(t)

NextLocks ==
  \/ \E t \in Tasks, run_id \in RunIdArgs : LkCallAddEvent(t, run_id)
  \/ \E t \in Tasks, run_id \in RunIdArgs : LkCallGetEvents(t, run_id)
  \/ \E t \in Tasks, run_id \in RunIdArgs : LkCallSubscribe(t, run_id)
  \/ \E t \in Tasks, run_id \in RunIdArgs, qid \in QueueIds : LkCallUnsubscribe(t, run_id, qid)
  \/ \E t \in Tasks : LkStoreAcquire(t)
  \/ \E t \in Tasks : LkAddEventBody(t)
  \/ \E t \in Tasks : LkGetEventsBody(t)
  \/ \E t \in Tasks : LkBusAcquire(t)
  \/ \E t \in Tasks : LkPublishBody(t)
  \/ \E t \in Tasks, qid \in QueueIds : LkDeliver(t, qid)
  \/ \E t \in Tasks : LkSubscribeBody(t)
  \/ \E t \in Tasks : LkUnsubscribeBody(t)

SpecLocks == InitOneRun /\ [][NextLocks]_vars

----------------------------------------------------------------------------
(* C21 *)

\* each lock has at most one holder
LockExclusive == \A lock \in {"store", "bus"} : Cardinality(Holders(lock)) <= 1

\* a task holds the store's lock only in the body of the store's
\* `async with` (not while it asks for the bus's lock or delivers), and the
\* bus's lock only in the body of the bus's `async with` (not while it
\* enqueues); it never holds both
LockDiscipline ==
  \A t \in DOMAIN frames :
    /\ "store" \in frames[t].holds => frames[t].pc = "store_body"
    /\ "bus" \in frames[t].holds => frames[t].pc = "bus_body"

\* some call is in progress
CallInProgress == \E t \in Tasks : Frame(t).pc # "idle"

\* C21: no task holds the store's lock while it acquires the bus's lock or
\* delivers an event, none holds the bus's lock while it enqueues, and
\* whenever calls are in progress (on the run or on another run id) one of
\* them can take its next step: no interleaving deadlocks.
C21_NoLockHeldAcross ==
  /\ LockExclusive
  /\ LockDiscipline
  /\ CallInProgress => \E t \in Tasks : ENABLED LkStep(t)

\* a task waits for the store's lock held by another task, while a third
\* call's delivery is due: a task is between publish's lock and its loop
C21_Witness ==
  /\ Frame("t1").pc = "deliver"
  /\ Frame("t2").pc = "store_body"
  /\ Holders("store") = {"t2"}
  /\ Holders("bus") = {}

----------------------------------------------------------------------------
(* C22 *)

\* C22: the tool-call events of the run's log are one per attempt made so
\* far (the call in flight included, so the event of an attempt is in the log
\* before its completion call is made, and the only events are those of
\* attempts); the k-th of them has the attempt index k, and its retry flag is
\* true exactly when k > 1.
C22_OneToolCallPerAttempt ==
  /\ Len(ToolCallEvents) = Attempts
  /\ Len(events[Uuid(1)]) = Len(ToolCallEvents)
  /\ \A k \in 1..Len(ToolCallEvents) :
       /\ ToolCallEvents[k].payload.attempt = k
       /\ ToolCallEvents[k].payload.retry = (k > 1)
       /\ k > 1 => ToolCallEvents[k - 1].timestamp < ToolCallEvents[k].timestamp

\* an invocation that made three attempts: two gateway timeouts, then an
\* upstream error; three events, the first one not a retry
C22_Witness ==
  /\ inv.pc = "raised"
  /\ Len(inv.outcomes) = 3
  /\ ~TimedOut(inv.outcomes[3])
  /\ Len(ToolCallEvents) = 3
  /\ ~ToolCallEvents[1].payload.retry
  /\ ToolCallEvents[3].payload.retry

----------------------------------------------------------------------------
(* C23 *)

\* the attempts (by position in Outcomes) that ended in a gateway timeout
\* while the budget was not used up: zero-based index below the budget
RetriedAttempts == {i \in 1..Len(Outcomes) : TimedOut(Outcomes[i]) /\ i - 1 < inv.retries}

\* C23: the invocation has slept, or is sleeping, once for each attempt that
\* ended in a gateway timeout with a zero-based index a below the budget, for
\* 2^a time units, in the order of the attempts; it sleeps only straight after
\* such an attempt, so there is no delay after a success, after another
\* failure or after the timeout of the last attempt of the budget.
C23_BackoffOnlyAfterTimeout ==
  inv.pc # "idle" =>
    /\ Len(inv.sleeps) + (IF inv.pc = "sleeping" THEN 1 ELSE 0) = Cardinality(RetriedAttempts)
    /\ \A i \in 1..Len(inv.sleeps) : inv.sleeps[i] = 2 ^ (i - 1)
    /\ inv.pc = "sleeping" =>
         /\ Len(Outcomes) \in RetriedAttempts
         /\ inv.attempt = Len(Outcomes) - 1

\* three timeouts and the delays 1, 2, 4 between four attempts, then a success
C23_Witness ==
  /\ inv.pc = "returned"
  /\ Len(inv.outcomes) = 4
  /\ inv.sleeps = <<1, 2, 4>>

----------------------------------------------------------------------------
(* C24 *)

\* the step is a call of append_finding for an agent the store knows
AppendFindingStep ==
  /\ Len(history') = Len(history) + 1
  /\ Last(history').op = "append_finding"
  /\ KnownAgent(runs, Last(history').args.run_id, Last(history').args.agent_id)

\* such a step appends the text at the end of the agent's findings and sets
\* its status to Running; the agent's error and the other agents of the run
\* are as before
C24_AppendStep ==
  AppendFindingStep =>
    LET c == Last(history')
        before == runs[c.args.run_id].agents
        after == runs'[c.args.run_id].agents
    IN  /\ c.ret = None
        /\ DOMAIN after = DOMAIN before
        /\ after[c.args.agent_id].findings =
             Append(before[c.args.agent_id].findings, c.args.finding)
        /\ after[c.args.agent_id].status = AgentStatus.RUNNING
        /\ after[c.args.agent_id].error = before[c.args.agent_id].error
        /\ \A other \in DOMAIN before \ {c.args.agent_id} : after[other] = before[other]

\* C24: append_finding on a known agent appends the text at the end of that
\* agent's findings and sets the agent's status to Running whatever it was
\* (Idle, Running, Completed or Failed), leaving the agent's error and every
\* other agent unchanged.
C24_AppendFindingForcesRunning == [][C24_AppendStep]_vars

\* a finding appended to an agent that had been marked Failed with an error,
\* in a run with a second agent
C24_Witness ==
  /\ history # <<>>
  /\ Last(history).op = "append_finding"
  /\ Last(history).ret = None
  /\ LET agents == runs[Uuid(1)].agents
         agent == agents[Last(history).args.agent_id]
     IN  /\ Cardinality(DOMAIN agents) = 2
         /\ agent.status = AgentStatus.RUNNING
         /\ agent.error = "boom"
         /\ agent.findings # <<>>

----------------------------------------------------------------------------
(* C25 *)

\* the moves of an agent's status: Idle -> Running -> {Completed, Failed}
AgentStatusMoves ==
  {<<AgentStatus.IDLE, AgentStatus.RUNNING>>,
   <<AgentStatus.RUNNING, AgentStatus.COMPLETED>>,
   <<AgentStatus.RUNNING, AgentStatus.FAILED>>}

\* an agent is created Idle, is never deleted, and its status changes by one
\* of the moves
C25_AgentStep ==
  \A run_id \in DOMAIN runs :
    /\ DOMAIN runs[run_id].agents \subseteq DOMAIN runs'[run_id].agents
    /\ \A agent_id \in DOMAIN runs'[run_id].agents :
         IF agent_id \in DOMAIN runs[run_id].agents
         THEN \/ runs'[run_id].agents[agent_id].status = runs[run_id].agents[agent_id].status
              \/ <<runs[run_id].agents[agent_id].status,
                   runs'[run_id].agents[agent_id].status>> \in AgentStatusMoves
         ELSE runs'[run_id].agents[agent_id].status = AgentStatus.IDLE

\* once the background task of a run that is Completed or Failed has ended,
\* every agent of the run is Completed or Failed
C25_AllAgentsTerminal ==
  (TaskEnded /\ TheRun.status \in {RunStatus.COMPLETED, RunStatus.FAILED}) =>
    \A agent_id \in DOMAIN TheRun.agents :
      TheRun.agents[agent_id].status \in {AgentStatus.COMPLETED, AgentStatus.FAILED}

\* C25 as stated: every step that registers with a run moves Idle -> Running
\* -> {Completed, Failed}, and when the run has ended Completed or Failed no
\* agent of the run is still Idle or Running, the steps whose run() raised
\* included.
C25_StepsEndTerminal == []C25_AllAgentsTerminal /\ [][C25_AgentStep]_vars

----------------------------------------------------------------------------
(* C26 *)

\* the step is a call of add_event with a run id the store has no run for
AddEventUnknownStep ==
  /\ Len(history') = Len(history) + 1
  /\ Last(history').op = "add_event"
  /\ Last(history').args.run_id \notin DOMAIN runs

\* such a step returns, appends one event of that run id to the log of the
\* run id (empty when there was none), puts the event on the queues
\* subscribed to the run id, and leaves the runs and the other logs alone
C26_AddEventStep ==
  AddEventUnknownStep =>
    LET run_id == Last(history').args.run_id
        before == get_events(events, run_id)
        after == get_events(events', run_id)
    IN  /\ Last(history').ret.kind = "return"
        /\ Len(after) = Len(before) + 1
        /\ SubSeq(after, 1, Len(before)) = before
        /\ Last(after).run_id = run_id
        /\ \A qid \in subscribers_of(subscribers, run_id) :
             Last(queues'[qid].items) = Last(after)
        /\ runs' = runs
        /\ get_run(runs', run_id) = None
        /\ \A other \in DOMAIN events \ {run_id} : events'[other] = events[other]

\* what get_run and get_events have answered for a run id the store has no
\* run for: not found, and a list holding every event add_event was given
\* for the run id before
C26_UnknownRunAnswers ==
  \A i \in 1..Len(history) :
    history[i].args.run_id \notin DOMAIN runs =>
      /\ history[i].op = "get_run" => history[i].ret.value = None
      /\ history[i].op = "get_events" =>
           /\ IsPrefix(history[i].ret.value, get_events(events, history[i].args.run_id))
           /\ Len(history[i].ret.value) =
                Cardinality({j \in 1..(i - 1) :
                               /\ history[j].op = "add_event"
                               /\ history[j].args.run_id = history[i].args.run_id})

\* C26: add_event for a run id unknown to the store does not fail: it
\* creates the log of that id when missing, appends the event, forwards it
\* to the bus, and creates no run; get_run for the id still reports not
\* found while get_events returns the event.
C26_LazyLog == []C26_UnknownRunAnswers /\ [][C26_AddEventStep]_vars

\* add_event('unknown'), then get_run('unknown') answered None and
\* get_events('unknown') answered the event, which the subscriber received
C26_Witness ==
  /\ Len(history) = 3
  /\ history[1].op = "add_event" /\ history[1].args.run_id = UnknownId
  /\ history[2].op = "get_run" /\ history[2].args.run_id = UnknownId
  /\ history[2].ret.value = None
  /\ history[3].op = "get_events" /\ history[3].args.run_id = UnknownId
  /\ history[3].ret.value = events[UnknownId]
  /\ queues[1].items = events[UnknownId]
  /\ Len(events[UnknownId]) = 1
  /\ UnknownId \notin DOMAIN runs

----------------------------------------------------------------------------
(* SpecSteps: a step (a ResearchSubagent) constructed for the run, whose    *)
(* caller calls mark_status before and after the step registers.            *)

\* the (status, error) pairs the callers of mark_status pass
MarkStatusArgs == {<<AgentStatus.RUNNING, None>>, <<AgentStatus.COMPLETED, None>>,
                   <<AgentStatus.FAILED, "boom">>}

\* BaseAgent.mark_status called on the step; the call is recorded with the
\* agent id the step had
StepMarkStatus(status, error) ==
  /\ Len(history) < MaxCalls
  /\ sub.pc \in {"register", "mark_running"}
  /\ mark_status(sub, status, error)
  /\ history' = Append(history, Call("t1", "mark_status",
                                     [agent_id |-> sub.agent_id, status |-> status,
                                      error |-> error], Returned(None)))
  /\ UNCHANGED <<snaps, handles, frames, invVars, agentVars>>

InitSteps ==
  /\ runs = create_run(<<>>, Uuid(1), "q", None, 0)
  /\ events = Put(<<>>, Uuid(1), <<>>)
  /\ subscribers = subscribe(<<>>, Uuid(1), 1)
  /\ queues = Put(<<>>, 1, Queue(QueueMaxSize))
  /\ clock = 2
  /\ uuidCount = 1
  /\ history = <<>>
  /\ snaps = <<>>
  /\ frames = <<>>
  /\ handles = Put(<<>>, 1, [run_id |-> Uuid(1), since |-> 0, got |-> <<>>])
  /\ inv = Idle
  /\ timeoutsLeft = 0
  /\ orch = Idle
  /\ lead = Idle
  /\ sub = ResearchSubagent(Uuid(1), "q", "q")
  /\ cit = Idle

NextSteps ==
  \/ \E se \in MarkStatusArgs : StepMarkStatus(se[1], se[2])
  \/ SubRegister
  \/ SubSpawned

SpecSteps == InitSteps /\ [][NextSteps]_vars

----------------------------------------------------------------------------
(* C27 *)

\* the step is a call of mark_status on a step without agent id
MarkStatusUnregisteredStep ==
  /\ Len(history') = Len(history) + 1
  /\ Last(history').op = "mark_status"
  /\ Last(history').args.agent_id = None

C27_MarkStep ==
  MarkStatusUnregisteredStep =>
    /\ Last(history').ret = Returned(None)
    /\ runs' = runs
    /\ events' = events
    /\ queues' = queues
    /\ subscribers' = subscribers
    /\ clock' = clock

\* C27: mark_status called on a step that never registered (no agent id)
\* changes nothing in the Run Store, appends no event, delivers nothing, and
\* returns without error.
C27_UnregisteredNoOp == [][C27_MarkStep]_vars

\* mark_status(FAILED, "boom") was called on the step before it registered:
\* the run has no agent and no event; called again after the registration,
\* it marked the agent
C27_Witness ==
  /\ Len(history) = 2
  /\ history[1].args.agent_id = None /\ history[1].args.status = AgentStatus.FAILED
  /\ history[2].args.agent_id = sub.agent_id /\ history[2].args.status = AgentStatus.COMPLETED
  /\ Truthy(sub.agent_id)
  /\ TheRun.agents[sub.agent_id].status = AgentStatus.COMPLETED
  /\ TheRun.agents[sub.agent_id].error = None

----------------------------------------------------------------------------
(* C28 *)

\* the role of the agent an event is tagged with (None for an untagged event)
RoleOf(e) == IF Truthy(e.agent_id) THEN TheRun.agents[e.agent_id].role ELSE None

\* the system prompt a tool-call event of the planning call shows
PlanPromptPreview == system_prompt_preview(plan_system_prompt)

\* the phase of the lead's pass an event of the run's log belongs to:
\* 1 the lead's registration, 2 run-started, 3 planning (the tool calls of the
\* planning call, plan-updated), 4 the workers, 5 the summary call, 6 the
\* citation step, 7 evaluation, 8 the terminal events
PhaseOf(e) ==
  LET role == RoleOf(e) IN
    IF e.type \in {EventType.RUN_COMPLETED, EventType.RUN_FAILED} THEN 8
    ELSE IF role = AgentRole.SUBAGENT THEN 4
    ELSE IF role = AgentRole.CITATION THEN 6
    ELSE IF role # AgentRole.LEAD_RESEARCHER THEN 7
    ELSE IF e.type = EventType.AGENT_SPAWNED THEN 1
    ELSE IF e.type = EventType.RUN_STARTED THEN 2
    ELSE IF e.type = EventType.PLAN_UPDATED THEN 3
    ELSE IF e.type = EventType.TOOL_CALL
    THEN (IF e.payload.system_prompt = PlanPromptPreview THEN 3 ELSE 5)
    ELSE 7

CountOfType(log, type) == Len(SelectSeq(log, LAMBDA e : e.type = type))

\* C28: in the run's log the phases never go back: the lead's agent-spawned
\* event is first, run-started second, then the planning events ending with
\* plan-updated, then the events of the workers, then the summary call, then
\* the events of the citation step, then evaluation events, then the
\* terminal events; no event of an earlier phase follows one of a later
\* phase, and registration, run-started and plan-updated occur once.
C28_SingleForwardPass ==
  RunCreated =>
    LET log == events[Uuid(1)]
        phase == [i \in 1..Len(log) |-> PhaseOf(log[i])]
    IN
      /\ \A i \in 1..(Len(log) - 1) : phase[i] <= phase[i + 1]
      /\ Len(log) >= 1 => phase[1] = 1
      /\ Len(log) >= 2 => phase[2] \in {2, 8}
      /\ CountOfType(log, EventType.RUN_STARTED) <= 1
      /\ CountOfType(log, EventType.PLAN_UPDATED) <= 1
      /\ CountOfType(log, EventType.RUN_COMPLETED) > 0 =>
           /\ Last(log).type = EventType.RUN_COMPLETED
           /\ CountOfType(log, EventType.RUN_COMPLETED) = 1

\* a completed run with every phase but evaluation in its log: the run has
\* an empty report, so no evaluation was started
C28_Witness ==
  /\ RunCreated
  /\ TaskEnded
  /\ TheRun.status = RunStatus.COMPLETED
  /\ {PhaseOf(events[Uuid(1)][i]) : i \in 1..Len(events[Uuid(1)])} = {1, 2, 3, 4, 5, 6, 8}

\* ---------------------------------------------------------------------
\* C29: the order of one worker's events (agents/subagent.py:21-42)

\* the workers registered in the run
Workers == {a \in DOMAIN TheRun.agents : TheRun.agents[a].role = AgentRole.SUBAGENT}

\* the types of the events of the run's log tagged with the agent, in the
\* order of the log
TypesOf(agent_id) ==
  LET own == SelectSeq(events[Uuid(1)], LAMBDA e : e.agent_id = agent_id)
  IN [i \in 1..Len(own) |-> own[i].type]

\* the place of an event type in a worker's order; a type a worker never
\* emits has none
WorkerRank(type) ==
  IF type = EventType.AGENT_SPAWNED THEN 1
  ELSE IF type = EventType.TOOL_CALL THEN 2
  ELSE IF type = EventType.FINDING_RECORDED THEN 3
  ELSE IF type = EventType.AGENT_COMPLETED THEN 4
  ELSE 0

\* the sequence of types is a prefix of: agent-spawned, one or more
\* tool-call, finding-recorded, agent-completed
IsWorkerPrefix(ts) ==
  LET count(type) == Len(SelectSeq(ts, LAMBDA t : t = type))
      rank == [i \in 1..Len(ts) |-> WorkerRank(ts[i])]
  IN
    /\ \A i \in 1..Len(ts) : rank[i] > 0
    /\ \A i \in 1..(Len(ts) - 1) : rank[i] <= rank[i + 1]
    /\ Len(ts) >= 1 => ts[1] = EventType.AGENT_SPAWNED
    /\ count(EventType.AGENT_SPAWNED) <= 1
    /\ count(EventType.FINDING_RECORDED) <= 1
    /\ count(EventType.AGENT_COMPLETED) <= 1
    /\ count(EventType.FINDING_RECORDED) = 1 => count(EventType.TOOL_CALL) >= 1
    /\ count(EventType.AGENT_COMPLETED) = 1 => count(EventType.FINDING_RECORDED) = 1

\* C29: in the run's log the events tagged with one worker's agent id are a
\* prefix of agent-spawned, one or more tool-call events, finding-recorded,
\* agent-completed; the whole order is there once the worker is marked
\* Completed, and a worker that failed part-way left a proper prefix.
C29_WorkerOrder ==
  RunCreated =>
    \A a \in Workers :
      LET ts == TypesOf(a) IN
        /\ IsWorkerPrefix(ts)
        /\ TheRun.agents[a].status = AgentStatus.COMPLETED =>
             /\ Len(ts) >= 4
             /\ ts[Len(ts)] = EventType.AGENT_COMPLETED

\* two workers of one run: the first went through the whole order with a
\* retried model call, the second failed in its search and left only its
\* agent-spawned event
C29_Witness ==
  /\ RunCreated
  /\ TaskEnded
  /\ \E a, b \in Workers :
       /\ Len(TypesOf(a)) >= 5
       /\ TypesOf(a)[Len(TypesOf(a))] = EventType.AGENT_COMPLETED
       /\ TypesOf(b) = <<EventType.AGENT_SPAWNED>>

----------------------------------------------------------------------------
(* SpecSaves: the four writers of a run's own fields                        *)
(* (services/run_store.py:93-121), called on a store of two runs, with the *)
(* calls that give the runs agents and events                              *)

\* The store after two create_run("q"), and the bus after one
\* subscribe of the first run
InitTwoRuns ==
  /\ runs = create_run(create_run(<<>>, Uuid(1), "q", None, 0), Uuid(2), "q", None, 2)
  /\ events = Put(Put(<<>>, Uuid(1), <<>>), Uuid(2), <<>>)
  /\ subscribers = subscribe(<<>>, Uuid(1), 1)
  /\ queues = Put(<<>>, 1, Queue(SmallQueueSize))
  /\ clock = 4
  /\ uuidCount = 2
  /\ history = <<>>
  /\ snaps = <<>>
  /\ frames = <<>>
  /\ handles = Put(<<>>, 1, [run_id |-> Uuid(1), since |-> 0, got |-> <<>>])
  /\ NoSteps

\* the citation lists passed to save_final_report
CitationArgs == {<<>>, <<[title |-> "t", url |-> "u"]>>}

\* the caller makes one more call
SavesCall(t) == Len(history) < MaxSaveCalls

NextSaves ==
  \/ \E run_id \in RunIdArgs :
       SavesCall("t1") /\ StoreAddAgent("t1", run_id, AgentRole.SUBAGENT)
  \/ \E run_id \in RunIdArgs :
       SavesCall("t1") /\ StoreAddEvent("t1", run_id, EventType.TOOL_CALL)
  \/ \E run_id \in RunIdArgs :
       \E status \in {RunStatus.RUNNING, RunStatus.COMPLETED, RunStatus.FAILED} :
         SavesCall("t1") /\ StoreUpdateRunStatus("t1", run_id, status)
  \/ \E run_id \in RunIdArgs : SavesCall("t1") /\ StoreSavePlan("t1", run_id, "p")
  \/ \E run_id \in RunIdArgs : \E citations \in CitationArgs :
       SavesCall("t1") /\ StoreSaveFinalReport("t1", run_id, "r", citations)
  \/ \E run_id \in RunIdArgs :
       /\ SavesCall("t1")
       /\ StoreSaveEvaluation("t1", run_id, EvaluationResult(<<>>, 1, TRUE, None, None))

SpecSaves == InitTwoRuns /\ [][NextSaves]_vars

\* the fields of the run each writer assigns, from its arguments
Written(c) ==
  IF c.op = "update_run_status" THEN [status |-> c.args.status]
  ELSE IF c.op = "save_plan" THEN [plan |-> c.args.plan]
  ELSE IF c.op = "save_final_report"
       THEN [final_report |-> c.args.report, citations |-> c.args.citations]
  ELSE [evaluation |-> c.args.evaluation]

\* the step is a call of one of the four writers on a run the store knows
SaveStep ==
  /\ Len(history') = Len(history) + 1
  /\ Last(history').op \in {"update_run_status", "save_plan", "save_final_report",
                            "save_evaluation"}
  /\ KnownRun(runs, Last(history').args.run_id)

\* such a step returns None, gives the fields of its operation the values
\* passed, moves the run's update timestamp forward, and leaves the run's
\* other fields, its agents, the other runs, the logs, the queues and the
\* subscribers as they were
C30_SaveStep ==
  SaveStep =>
    LET c == Last(history')
        before == runs[c.args.run_id]
        after == runs'[c.args.run_id]
        w == Written(c)
    IN  /\ c.ret = Returned(None)
        /\ DOMAIN runs' = DOMAIN runs
        /\ DOMAIN after = DOMAIN before
        /\ \A f \in DOMAIN w : after[f] = w[f]
        /\ after.updated_at > before.updated_at
        /\ \A f \in DOMAIN before \ (DOMAIN w \cup {"updated_at"}) : after[f] = before[f]
        /\ \A other \in DOMAIN runs \ {c.args.run_id} : runs'[other] = runs[other]
        /\ events' = events
        /\ queues' = queues
        /\ subscribers' = subscribers

\* C30: on a known run, update_run_status changes only status, save_plan only
\* plan, save_final_report only final_report and citations, save_evaluation
\* only evaluation, each refreshing the run's update timestamp; the run's
\* other fields and agents, every other run and all event logs are unchanged
\* and no event is appended or published.
C30_WritersTouchOwnFields == [][C30_SaveStep]_vars

\* the first run has an agent, an event in its log and in its subscriber's
\* queue, and then its report and citations were saved; the second run is
\* as created
C30_Witness ==
  /\ Len(history) = MaxSaveCalls
  /\ Last(history).op = "save_final_report"
  /\ Last(history).ret = Returned(None)
  /\ Last(history).args.run_id = Uuid(1)
  /\ runs[Uuid(1)].final_report = "r"
  /\ runs[Uuid(1)].citations # <<>>
  /\ runs[Uuid(1)].agents # <<>>
  /\ Len(events[Uuid(1)]) = 1
  /\ Len(queues[1].items) = 1
  /\ runs[Uuid(2)] = ResearchRun(Uuid(2), "q", None, 2)

----------------------------------------------------------------------------
(* C31: the citation entries persisted on the run                           *)
(* (agents/citation.py:116-129, agents/lead_researcher.py:78-94)            *)

\* the step of the citation agent that makes its dict of the text the
\* completion call returned
CitParseStep == cit.pc = "await_llm" /\ inv.pc = "returned" /\ cit'.pc # cit.pc

\* that step does not fail for a dict without a citations key, whose
\* citations become the empty list; the entries it keeps are those with a
\* citation key, in order, each with the two fields citation and url, the
\* url being "" when the entry had none
C31_ParseStep ==
  CitParseStep =>
    LET parsed == parse_response(inv.result, cit.findings)
        given == IF "citations" \in DOMAIN parsed THEN parsed.citations ELSE <<>>
        kept == SelectSeq(given, LAMBDA c : "citation" \in DOMAIN c)
        out == cit'.citation_data.citations
    IN  /\ cit'.pc = "emit_citations"
        /\ Len(out) = Len(kept)
        /\ \A i \in 1..Len(out) :
             /\ DOMAIN out[i] = {"citation", "url"}
             /\ out[i].citation = kept[i].citation
             /\ out[i].url = (IF "url" \in DOMAIN kept[i] THEN kept[i].url ELSE "")

\* the agent-completed events of the citation step in the run's log
CitationCompleted ==
  SelectSeq(events[Uuid(1)],
            LAMBDA e : e.type = EventType.AGENT_COMPLETED /\ RoleOf(e) = AgentRole.CITATION)

\* every entry persisted on the run has exactly the fields citation and url,
\* and once the report is saved the entries are those the citation step
\* returned
C31_PersistedEntries ==
  RunCreated =>
    /\ \A i \in 1..Len(TheRun.citations) :
         DOMAIN TheRun.citations[i] = {"citation", "url"}
    /\ TheRun.final_report # None =>
         /\ Len(CitationCompleted) = 1
         /\ TheRun.citations = CitationCompleted[1].payload.citation_response.citations

C31_NoKeyWitness ==
  /\ RunCreated
  /\ TheRun.final_report = "r"
  /\ TheRun.citations = <<>>

----------------------------------------------------------------------------
(* C32, C33: the terminal events of the run's log and the run's status      *)
(* (agents/lead_researcher.py:119-139, api/routes.py:65-78)                 *)

C32_EventBeforeCompleted ==
  RunCreated =>
    /\ TheRun.status = RunStatus.COMPLETED
         => CountOfType(events[Uuid(1)], EventType.RUN_COMPLETED) = 1
    /\ CountOfType(events[Uuid(1)], EventType.RUN_FAILED) > 0
         => TheRun.status = RunStatus.FAILED

\* the terminal events of the run's log
TerminalEvents ==
  SelectSeq(events[Uuid(1)],
            LAMBDA e : e.type \in {EventType.RUN_COMPLETED, EventType.RUN_FAILED})

\* C33 as stated: over the whole life of the run its log has at most one
\* terminal event: never a run-completed and a run-failed event together,
\* and never two run-failed events.
C33_AtMostOneTerminalEvent == RunCreated => Len(TerminalEvents) <= 1

\* what the log does keep to: a run-completed event is alone, and the
\* run-failed events are at most the lead's and the guard's, with the same
\* error text
C33_TerminalEventsBounded ==
  RunCreated =>
    /\ Len(TerminalEvents) <= 2
    /\ CountOfType(TerminalEvents, EventType.RUN_COMPLETED) > 0 => Len(TerminalEvents) = 1
    /\ Len(TerminalEvents) = 2 =>
         /\ TerminalEvents[1].agent_id = lead.agent_id
         /\ TerminalEvents[2].agent_id = None
         /\ TerminalEvents[1].payload = TerminalEvents[2].payload

----------------------------------------------------------------------------
(* C34: the events an observer of the live stream is sent                   *)
(* (api/routes.py:141-158, services/run_store.py:39-49)                     *)

\* the logged events a frame has sent, in the order sent: those of its
\* history replayed so far, then those taken from its queue
WsSentEvents(qid) ==
  SubSeq(handles[qid].history, 1, Replayed(qid)) \o handles[qid].got

\* C34 as stated: an observer is never sent the same logged event twice: an
\* event sent in the replay of the history is not sent again from the
\* subscription queue.
C34_NoDuplicate ==
  \A qid \in WsFrames :
    \A i, j \in DOMAIN WsSentEvents(qid) :
      i # j => WsSentEvents(qid)[i] # WsSentEvents(qid)[j]

\* what the order of the calls gives: the events sent twice are those
\* appended between the subscription and the reading of the history; each
\* is sent once in the replay and once from the queue, never more
C34_DuplicatesAreRaced ==
  \A qid \in WsFrames :
    \A i, j \in DOMAIN WsSentEvents(qid) :
      (i < j /\ WsSentEvents(qid)[i] = WsSentEvents(qid)[j]) =>
        /\ i <= Replayed(qid)
        /\ j > Replayed(qid)
        /\ i > handles[qid].since
        /\ WsSentEvents(qid)[i] = LogOf(qid)[i]

----------------------------------------------------------------------------
(* C35: the subscription of an observer that has gone                       *)
(* (api/routes.py:141-194, services/event_bus.py:25-32)                     *)

\* a step of the handler of frame qid
WsHandlerStep(qid) ==
  \/ WsSendState(qid)
  \/ WsGetHistory(qid)
  \/ WsReplay(qid)
  \/ WsReceive(qid)
  \/ WsDisconnect(qid)

\* SpecWs where every handler that can take a step eventually takes one: the
\* event loop runs every ready task and send_json and the store calls end.
\* Nothing obliges the run to append another event or an observer to close.
SpecWsLive == InitOneRun /\ [][NextWs]_vars /\ \A qid \in QueueIds : WF_vars(WsHandlerStep(qid))

\* the observer of frame qid has closed its socket
WsGone(qid) == qid \in WsFrames /\ ~handles[qid].connected

\* the queue is in the registry of the bus
WsRegistered(qid) == \E run_id \in DOMAIN subscribers : qid \in subscribers[run_id]

\* C35 as stated: the subscription of an observer that has disconnected is
\* eventually removed from the bus, also when no further event is published
\* to the run.
C35_SubscriptionRemoved == \A qid \in QueueIds : WsGone(qid) ~> ~WsRegistered(qid)

\* what the handler does: the subscription of an observer that has gone is
\* removed when the handler is at a send_json: of the run state, of an event
\* of its history or of an event of its queue
C35_RemovedAtNextSend ==
  \A qid \in QueueIds : (WsGone(qid) /\ WsSending(qid)) ~> ~WsRegistered(qid)

\* the handler waits on its empty queue for an observer that has gone, and
\* its queue is still registered
C35_LeakedWitness ==
  \E qid \in WsFrames : WsGone(qid) /\ WsWaiting(qid) /\ WsRegistered(qid)

----------------------------------------------------------------------------
(* C36: what an event of the log says is in the store                       *)
(* (agents/base.py:27-59, agents/lead_researcher.py:40-41, 90-131)          *)

\* the store holds what the event says: its agent is an agent of the run, a
\* finding it announces is among that agent's findings, a plan it announces
\* is the run's plan, and a completed run has its report
Persisted(rs, e) ==
  LET run == rs[e.run_id] IN
    /\ e.agent_id # None => e.agent_id \in DOMAIN run.agents
    /\ e.type = EventType.FINDING_RECORDED =>
         /\ e.agent_id # None
         /\ e.payload.content \in Range(run.agents[e.agent_id].findings)
    /\ e.type = EventType.PLAN_UPDATED => run.plan = e.payload.plan
    /\ e.type = EventType.RUN_COMPLETED => run.final_report # None

\* the step appends an event to the run's log
AppendsEvent == RunCreated /\ Len(events'[Uuid(1)]) = Len(events[Uuid(1)]) + 1

\* the store held what the event says before the step that appended it
C36_AppendStep == AppendsEvent => Persisted(runs, Last(events'[Uuid(1)]))

\* and it holds it ever after
C36_LogPersisted ==
  RunCreated => \A i \in DOMAIN events[Uuid(1)] : Persisted(runs, events[Uuid(1)][i])

\* C36: every event of a run's log describes state that the store holds when
\* the event is appended, and afterwards: an event with an agent id is of an
\* agent of the run, the content of a finding-recorded event is in that
\* agent's findings, the plan of a plan-updated event is the run's saved
\* plan, and a run with a run-completed event has its final report set.
C36_EventsDescribePersisted == []C36_LogPersisted /\ [][C36_AppendStep]_vars

\* a completed run whose log has the four kinds of event: events of agents,
\* a finding-recorded event, the plan-updated event and run-completed
C36_Witness ==
  /\ RunCreated
  /\ TaskEnded
  /\ CountOfType(events[Uuid(1)], EventType.FINDING_RECORDED) >= 2
  /\ CountOfType(events[Uuid(1)], EventType.PLAN_UPDATED) = 1
  /\ CountOfType(events[Uuid(1)], EventType.RUN_COMPLETED) = 1
  /\ TheRun.plan # None
  /\ TheRun.final_report # None

====
